---- MODULE Spec2Model ----
(***************************************************************************)
(* A model of the LUXusb download engine (luxusb/utils/downloader.py) and  *)
(* of the mirror statistics ledger (luxusb/utils/mirror_stats.py).         *)
(*                                                                         *)
(* One ISODownloader instance works on one destination path.  The disk     *)
(* holds three files for that path: the destination, the .part file and    *)
(* the .resume sidecar.  The transfer worker runs download_with_resume or  *)
(* download step by step; the caller thread may call pause() and resume()  *)
(* between any two steps of the worker.                                     *)
(*                                                                         *)
(* The ledger (MirrorStatsTracker) is called from several threads and      *)
(* through several tracker objects that share one backing file.  The       *)
(* selector (luxusb/utils/mirror_selector.py) probes the mirrors in        *)
(* parallel and picks one.                                                 *)
(***************************************************************************)
EXTENDS Integers, Sequences, FiniteSets, TLC

\* ------------------------------------------------------------------ bounds
MaxLen == 3          \* longest body a server holds, in bytes
ChunkSize == 1       \* the chunk_size argument, in bytes
TenMiB == 2          \* the checkpoint modulus 10 * 1024 * 1024, scaled to the bodies
MaxMirrors == 2      \* longest mirrors list passed to download_with_mirrors
MaxElapsed == 2      \* largest elapsed time of an attempt, in ms

Bytes == {0, 1}
URLs == {"u1", "u2", "u3"}

\* ------------------------------------------------------------------- files
NoFile == <<-1>>                      \* a path at which no file exists
Exists(f) == f # NoFile
NoMeta == [state |-> "absent", url |-> "", downloaded_bytes |-> 0]
CorruptMeta == [state |-> "corrupt", url |-> "", downloaded_bytes |-> 0]

RECURSIVE SeqsUpTo(_)
SeqsUpTo(n) == IF n = 0 THEN {<<>>}
               ELSE LET S == SeqsUpTo(n - 1)
                    IN  S \cup {Append(s, b) : s \in {t \in S : Len(t) = n - 1}, b \in Bytes}
Bodies == SeqsUpTo(MaxLen)

Take(s, n) == SubSeq(s, 1, IF n < Len(s) THEN n ELSE Len(s))
Drop(s, n) == SubSeq(s, n + 1, Len(s))

\* -------------------------------------------------------------- the digest
\* hashlib.sha256(): a running state, update() folds the bytes in order.
NoHash == -1
sha256 == 0
update(h, b) == (h * 3 + b + 1) % 256
RECURSIVE update_all(_, _)
update_all(h, s) == IF s = <<>> THEN h ELSE update_all(update(h, Head(s)), Tail(s))

HexDigits == <<"0", "1", "2", "3", "4", "5", "6", "7", "8", "9",
               "a", "b", "c", "d", "e", "f">>
hexdigest(h) == <<HexDigits[(h \div 16) + 1], HexDigits[(h % 16) + 1]>>
lower_char(c) == CASE c = "A" -> "a" [] c = "B" -> "b" [] c = "C" -> "c"
                   [] c = "D" -> "d" [] c = "E" -> "e" [] c = "F" -> "f"
                   [] OTHER -> c
upper_char(c) == CASE c = "a" -> "A" [] c = "b" -> "B" [] c = "c" -> "C"
                   [] c = "d" -> "D" [] c = "e" -> "E" [] c = "f" -> "F"
                   [] OTHER -> c
lower(s) == [k \in DOMAIN s |-> lower_char(s[k])]
upper(s) == [k \in DOMAIN s |-> upper_char(s[k])]
Digest(s) == hexdigest(update_all(sha256, s))

VARIABLES
    content,            \* the body the origin publishes
    dest, part, meta,   \* the files of the destination path
    pause_event,        \* ISODownloader.pause_event (TRUE = set = not paused)
    stats,              \* MirrorStatsTracker._stats
    op,                 \* the public operation in flight: "none", "resume", "mirrors"
    pc,                 \* the worker's position inside download_with_resume / download
    url, expected_sha256, allow_resume, progress_callback,
    can_resume, downloaded_size, sha256_hash, headers, status_code,
    stream,             \* what response.iter_content has yet to yield
    supports_resume,
    accept_ranges,      \* what the HEAD probe of the resume check answered
    success,            \* the value the transfer returned
    all_urls, i, mpc,   \* download_with_mirrors: candidates, loop index, position
    candidates,         \* [primary_url] + mirrors as the caller passed them
    cbLog,              \* downloaded_bytes of every progress callback of the transfer
    ledgerLog,          \* the calls download_with_mirrors made on the ledger
    error,              \* the exception that ended the last transfer call, or "none"
    stats_file,         \* mirror_stats.json, the table as last written
    selector_stats,     \* _stats of the tracker the MirrorSelector owns
    lock,               \* _lock of each tracker: the thread holding it, or "free"
    tpc, call, tmp, ret,\* per thread: position, the call in flight, counts read, result
    recorded,           \* per URL, the outcomes recorded since its entry was created
    ncalls, now, live,  \* calls begun, the clock in days, the trackers in use
    rank_input, ranked, \* the last rank_mirrors call and its result
    sel_input, sel_mirrors, test_parallel, probes, results, selected, spc,
    destination, part_file, metadata_path,
    raw_file,           \* mirror_stats.json as a tracker finds it when constructed
    preferences,        \* UpdateScheduler.preferences
    prefs_file,         \* update_preferences.json
    sched_call,         \* the last call on the scheduler, or what should_check returned
    pair,               \* two download_with_resume calls made from two threads
    gate_hist           \* the control calls so far, as far as the gate's users can tell

fsVars == <<dest, part, meta>>
argVars == <<url, expected_sha256, allow_resume, progress_callback>>
locVars == <<can_resume, downloaded_size, sha256_hash, headers, status_code,
             stream, supports_resume, accept_ranges, success, error>>
mirVars == <<all_urls, i, mpc, candidates, ledgerLog>>
ledVars == <<selector_stats, lock, tpc, call, tmp, ret, recorded, ncalls, now, live>>
rankVars == <<rank_input, ranked>>
selVars == <<sel_input, sel_mirrors, test_parallel, probes, results, selected, spc>>
pathVars == <<destination, part_file, metadata_path>>
schedVars == <<preferences, prefs_file, sched_call>>
auxVars == <<raw_file, schedVars, pair, gate_hist>>
calmVars == <<stats_file, ledVars, rankVars, selVars, pathVars, raw_file, schedVars, pair>>
extVars == <<stats_file, ledVars, rankVars, selVars, pathVars, auxVars>>
xferVars == <<content, fsVars, pause_event, op, pc, argVars, locVars, mirVars, cbLog>>
restVars == <<content, pause_event, op, pc, argVars, locVars, mirVars, cbLog, stats,
              stats_file, ledVars, rankVars, selVars, pathVars, raw_file, schedVars,
              gate_hist>>
vars == <<xferVars, stats, stats_file, ledVars, rankVars, selVars, pathVars, auxVars>>

\* ------------------------------------------------------------- the servers
\* u1 and u2 publish the same body; u3 is a mirror whose body differs.
Flip(s) == [k \in DOMAIN s |-> 1 - s[k]]
Served(u) == IF u = "u3" THEN Flip(content) ELSE content

\* The checksums a caller may pass: none, the published one in either case,
\* and one that matches nothing the origin publishes.
Expected == {<<>>, Digest(content), upper(Digest(content)),
             hexdigest((update_all(sha256, content) + 171) % 256)}

\* ---------------------------------------------------------------- the disk
\* What an earlier, interrupted transfer of the same destination may have left:
\* nothing, or the first k bytes of some server's body in the .part file with
\* no sidecar, an unreadable sidecar, a sidecar written at k bytes, or a
\* sidecar written one chunk before the transfer stopped.
Record(u, n) == [state |-> "ok", url |-> u, downloaded_bytes |-> n]
Sidecars(u, k) ==
    {NoMeta, CorruptMeta} \cup {Record(u, n) : n \in {k, k - ChunkSize} \cap Nat}
Leftovers ==
    {<<NoFile, NoMeta>>} \cup
    UNION {{<<Take(Served(u), k), m>> : m \in Sidecars(u, k)} :
              u \in {"u1", "u3"}, k \in 0..Len(content)}

\* ------------------------------------------------------------------ ledger
\* A table maps every URL to its entry; present = FALSE stands for a URL that
\* has no entry.  A timestamp is a day of the clock, None, or Invalid: a
\* string datetime.fromisoformat refuses.
None == -1
Invalid == -2
NoStats == [present |-> FALSE, success_count |-> 0, failure_count |-> 0,
            total_response_time_ms |-> 0, last_used |-> None, last_updated |-> None]
MirrorStats(s) == IF s.present THEN s ELSE [NoStats EXCEPT !.present = TRUE]

record_failure_known_only(st, mirror_url) ==
    IF st[mirror_url].present
    THEN [st EXCEPT ![mirror_url].failure_count = @ + 1]
    ELSE st

record_success(st, mirror_url, response_time_ms) ==
    [st EXCEPT ![mirror_url] =
        [MirrorStats(@) EXCEPT !.success_count = @ + 1,
                               !.total_response_time_ms = @ + response_time_ms,
                               !.last_used = now,
                               !.last_updated = now]]
record_failure(st, mirror_url) ==
    [st EXCEPT ![mirror_url] = [MirrorStats(@) EXCEPT !.failure_count = @ + 1,
                                                      !.last_updated = now]]

\* MirrorStats.success_rate and average_response_time_ms, as fractions
\* <<numerator, denominator>>: the rate is a share of 1, not of 100.
success_rate(s) ==
    IF s.success_count + s.failure_count = 0 THEN <<1, 1>>
    ELSE <<s.success_count, s.success_count + s.failure_count>>
average_response_time_ms(s) ==
    IF s.success_count = 0 THEN <<0, 1>>
    ELSE <<s.total_response_time_ms, s.success_count>>
FracLess(x, y) == x[1] * y[2] < y[1] * x[2]
FracEq(x, y) == x[1] * y[2] = y[1] * x[2]

\* get_healthy_mirrors: the URLs without an entry or with a success rate of
\* at least min_success_rate percent, in their input order.
Healthy(st, u, min_success_rate) ==
    \/ ~st[u].present
    \/ success_rate(st[u])[1] * 100 >= min_success_rate * success_rate(st[u])[2]
get_healthy_mirrors(st, mirror_urls, min_success_rate) ==
    SelectSeq(mirror_urls, LAMBDA u : Healthy(st, u, min_success_rate))

RankKey_untested_last(st, u) ==
    IF st[u].present
    THEN [rate |-> success_rate(st[u]), time |-> average_response_time_ms(st[u])]
    ELSE [rate |-> <<0, 1>>, time |-> <<0, 1>>]

\* rank_mirrors, lines 148-158: the sort key of a URL; (100.0, 0.0) when the
\* URL has no entry.
RankKey(st, u) ==
    IF st[u].present
    THEN [rate |-> success_rate(st[u]), time |-> average_response_time_ms(st[u])]
    ELSE [rate |-> <<1, 1>>, time |-> <<0, 1>>]

\* key=lambda x: (-x[1], x[2]): a sorts before b.
KeyLess(a, b) ==
    \/ FracLess(b.rate, a.rate)
    \/ FracEq(a.rate, b.rate) /\ FracLess(a.time, b.time)

\* list.sort is stable: an element goes after every element already placed
\* that does not sort after it.
InsertSorted(st, sorted, u) ==
    LET later == {j \in DOMAIN sorted : KeyLess(RankKey(st, u), RankKey(st, sorted[j]))}
        at == IF later = {} THEN Len(sorted) + 1
              ELSE CHOOSE j \in later : \A k \in later : j <= k
    IN  SubSeq(sorted, 1, at - 1) \o <<u>> \o SubSeq(sorted, at, Len(sorted))
RECURSIVE SortInto(_, _, _)
SortInto(st, sorted, rest) ==
    IF rest = <<>> THEN sorted
    ELSE SortInto(st, InsertSorted(st, sorted, Head(rest)), Tail(rest))
rank_mirrors(st, mirror_urls) == SortInto(st, <<>>, mirror_urls)

\* -------------------------------------------------------------------- Init
\* No call has been made on the engine: the gate is open (line 95).
WorkerIdle ==
    /\ pause_event = TRUE
    /\ op = "none" /\ pc = "idle"
    /\ url = "" /\ expected_sha256 = <<>> /\ allow_resume = FALSE
    /\ progress_callback = FALSE
    /\ can_resume = FALSE /\ downloaded_size = 0 /\ sha256_hash = NoHash
    /\ headers = -1 /\ status_code = 0 /\ stream = <<>>
    /\ supports_resume = FALSE /\ accept_ranges = "unasked" /\ success = FALSE
    /\ error = "none"
    /\ all_urls = <<>> /\ i = 0 /\ mpc = "idle" /\ candidates = <<>>
    /\ cbLog = <<>> /\ ledgerLog = <<>>

TransferInit ==
    /\ content \in Bodies
    /\ dest = NoFile
    /\ \E f \in Leftovers : part = f[1] /\ meta = f[2]
    /\ WorkerIdle

\* No ledger call is in flight; only the Engine's tracker is in use.
Trackers == {"engine", "selector"}
Threads == {"t1", "t2"}
NoCall == [kind |-> "none", tracker |-> "engine", mirror_url |-> "",
           response_time_ms |-> 0, mirror_urls |-> <<>>]
NoCounts == [success_count |-> 0, failure_count |-> 0, total_response_time_ms |-> 0]
NoResult == [entry |-> NoStats, urls |-> <<>>, removed |-> 0]
LedgerIdle ==
    /\ lock = [k \in Trackers |-> "free"]
    /\ tpc = [t \in Threads |-> "idle"]
    /\ call = [t \in Threads |-> NoCall]
    /\ tmp = [t \in Threads |-> NoCounts]
    /\ ret = [t \in Threads |-> NoResult]
    /\ recorded = [u \in URLs |-> [success_count |-> 0, failure_count |-> 0]]
    /\ ncalls = 0 /\ now = 0
    /\ live = {"engine"}

SelectorIdle ==
    /\ rank_input = <<>> /\ ranked = <<>>
    /\ sel_input = <<>> /\ sel_mirrors = <<>> /\ test_parallel = TRUE
    /\ probes = <<>> /\ results = <<>> /\ selected = "" /\ spc = "idle"

PathIdle == destination = <<>> /\ part_file = <<>> /\ metadata_path = <<>>

EmptyTable == [u \in URLs |-> NoStats]

\* mirror_stats.json does not exist.
AbsentFile == [form |-> "absent", items |-> <<>>]

\* UpdateScheduler: the defaults of lines 61-70, with the interval of 7 days
\* scaled to the clock.
DefaultIntervalDays == 2
default_preferences ==
    [enabled |-> TRUE, check_interval_days |-> DefaultIntervalDays,
     last_check_timestamp |-> None, remind_later_until |-> None,
     skip_versions |-> <<>>, skip_until_date |-> None,
     auto_check_on_startup |-> TRUE]
SchedulerIdle ==
    /\ preferences = default_preferences /\ prefs_file = default_preferences
    /\ sched_call = "none"

\* Two threads that call download_with_resume on the one engine, for the one
\* destination.  at is where the file a worker holds open is found now:
\* under the .part name, under the destination's name, or under no name.
Workers == {"w1", "w2"}
NoTransfer == [pc |-> "idle", url |-> "", progress_callback |-> FALSE,
               can_resume |-> FALSE, headers |-> -1, mode |-> "",
               downloaded_size |-> 0, pos |-> 0, stream |-> <<>>,
               supports_resume |-> FALSE, at |-> "closed", success |-> FALSE]
PairIdle == pair = [w \in Workers |-> NoTransfer]

\* gate_hist is "open" when no control call was made yet or the last one was
\* resume(), "paused" when the last one was pause(), and "held" when the
\* last one was pause() and a download_with_resume call began after it.
AuxIdle == raw_file = AbsentFile /\ SchedulerIdle /\ PairIdle /\ gate_hist = "open"

OthersIdle ==
    /\ stats = EmptyTable /\ stats_file = EmptyTable /\ selector_stats = EmptyTable
    /\ LedgerIdle /\ SelectorIdle /\ PathIdle /\ AuxIdle

Init ==
    /\ TransferInit
    /\ OthersIdle

\* ------------------------------------------------------ pause() / resume()
pause ==
    /\ pause_event' = FALSE
    /\ gate_hist' = IF gate_hist = "held" THEN "held" ELSE "paused"
    /\ UNCHANGED <<calmVars, content, fsVars, stats, op, pc, argVars, locVars, mirVars, cbLog>>

resume ==
    /\ pause_event' = TRUE
    /\ gate_hist' = "open"
    /\ UNCHANGED <<calmVars, content, fsVars, stats, op, pc, argVars, locVars, mirVars, cbLog>>

is_paused == ~pause_event

\* ---------------------------------------------------- download_with_resume
\* Lines 284-317: the arguments are bound, the resume check is made, the
\* running hash is seeded and the Range header is chosen.  probe is the
\* answer of _supports_resume (HEAD), asked only when the sidecar validates.
SidecarValid_ignores_size(u, ar) ==
    /\ ar
    /\ Exists(part)
    /\ meta.state = "ok"
    /\ meta.url = u

\* Lines 297-303: resumption is allowed, the .part file exists, the sidecar
\* loads and names this URL, and it records the file's actual size.
SidecarValid(u, ar) ==
    /\ ar
    /\ Exists(part)
    /\ meta.state = "ok"
    /\ meta.url = u
    /\ Len(part) = meta.downloaded_bytes

SeededHash_unseeded(exp, can) == IF exp = <<>> THEN NoHash ELSE sha256

\* Lines 293 and 307-311: the hash starts empty, or is rebuilt from the bytes
\* of the .part file when the transfer resumes.
SeededHash(exp, can) ==
    IF exp = <<>> THEN NoHash
    ELSE IF can THEN update_all(sha256, part) ELSE sha256

Enter(u, exp, ar, cb, probe) ==
    LET metaOk == meta.state = "ok" /\ meta.url = u
        can == SidecarValid(u, ar) /\ probe
        size == IF ar /\ Exists(part) /\ metaOk THEN Len(part) ELSE 0
    IN  /\ url' = u /\ expected_sha256' = exp /\ allow_resume' = ar
        /\ progress_callback' = cb
        /\ can_resume' = can
        /\ accept_ranges' = IF SidecarValid(u, ar)
                            THEN (IF probe THEN "bytes" ELSE "none")
                            ELSE "unasked"
        /\ downloaded_size' = size
        /\ sha256_hash' = SeededHash(exp, can)
        /\ headers' = IF can /\ size > 0 THEN size ELSE -1
        /\ status_code' = 0 /\ stream' = <<>> /\ supports_resume' = FALSE
        /\ success' = FALSE /\ error' = "none"
        /\ cbLog' = <<>>
        /\ gate_hist' = IF gate_hist = "paused" THEN "held" ELSE gate_hist
        /\ pc' = "get"

download_with_resume ==
    /\ op = "none" /\ pc = "idle"
    /\ \E u \in URLs, exp \in Expected, ar \in BOOLEAN, cb \in BOOLEAN :
       \E probe \in (IF SidecarValid(u, ar) THEN BOOLEAN ELSE {FALSE}) :
            Enter(u, exp, ar, cb, probe)
    /\ op' = "resume"
    /\ UNCHANGED <<calmVars, content, fsVars, pause_event, stats, mirVars>>

\* Lines 320-348: the GET, the status check, the second HEAD probe and the
\* opening of the .part file ('wb' truncates or creates, 'ab' keeps).
FileAfterOpen_keeps(status) == IF can_resume THEN part ELSE <<>>

\* open(part_file, mode): 'ab' keeps what is there, 'wb' truncates or creates.
FileAfterOpen(status) == IF can_resume /\ status = 206 THEN part ELSE <<>>

Get200 ==
    /\ pc = "get"
    /\ \E probe \in BOOLEAN : supports_resume' = probe
    /\ status_code' = 200
    /\ downloaded_size' = 0
    /\ sha256_hash' = IF expected_sha256 # <<>> THEN sha256 ELSE NoHash
    /\ stream' = Served(url)
    /\ part' = FileAfterOpen(200)
    /\ pc' = "iter"
    /\ UNCHANGED <<extVars, error, content, dest, meta, pause_event, stats, op, argVars,
                   can_resume, headers, accept_ranges, success, mirVars, cbLog>>

Get206_recounts ==
    /\ pc = "get"
    /\ headers >= 0 /\ headers < Len(Served(url))
    /\ \E probe \in BOOLEAN : supports_resume' = probe
    /\ status_code' = 206
    /\ downloaded_size' = 0
    /\ stream' = Drop(Served(url), headers)
    /\ part' = FileAfterOpen(206)
    /\ pc' = "iter"
    /\ UNCHANGED <<extVars, error, content, dest, meta, pause_event, stats, op, argVars,
                   can_resume, sha256_hash, headers, accept_ranges,
                   success, mirVars, cbLog>>

\* A server answers 206 only to a Range request it can satisfy.
Get206 ==
    /\ pc = "get"
    /\ headers >= 0 /\ headers < Len(Served(url))
    /\ \E probe \in BOOLEAN : supports_resume' = probe
    /\ status_code' = 206
    /\ stream' = Drop(Served(url), headers)
    /\ part' = FileAfterOpen(206)
    /\ pc' = "iter"
    /\ UNCHANGED <<extVars, error, content, dest, meta, pause_event, stats, op, argVars,
                   can_resume, downloaded_size, sha256_hash, headers, accept_ranges,
                   success, mirVars, cbLog>>

\* Any other status, or a RequestException from session.get: return False.
GetFails ==
    /\ pc = "get"
    /\ \E st \in {0, 404} : status_code' = st
    /\ success' = FALSE
    /\ error' = "RequestException"
    /\ pc' = "done"
    /\ UNCHANGED <<extVars, content, fsVars, pause_event, stats, op, argVars,
                   can_resume, downloaded_size, sha256_hash, headers, stream,
                   supports_resume, accept_ranges, mirVars, cbLog>>

\* Line 349: iter_content yields the next chunk, ends, or raises.
NextChunk ==
    /\ pc = "iter"
    /\ pc' = IF stream = <<>> THEN "rename" ELSE "wait"
    /\ UNCHANGED <<extVars, content, fsVars, pause_event, stats, op, argVars, locVars,
                   mirVars, cbLog>>

StreamFails_unlinks ==
    /\ pc = "iter" /\ stream # <<>>
    /\ part' = NoFile
    /\ success' = FALSE
    /\ error' = "RequestException"
    /\ pc' = "done"
    /\ UNCHANGED <<extVars, content, dest, meta, pause_event, stats, op, argVars,
                   can_resume, downloaded_size, sha256_hash, headers, status_code,
                   stream, supports_resume, accept_ranges, mirVars, cbLog>>

\* Lines 417-420: iter_content raises RequestException; the .part file stays.
StreamFails ==
    /\ pc = "iter" /\ stream # <<>>
    /\ success' = FALSE
    /\ error' = "RequestException"
    /\ pc' = "done"
    /\ UNCHANGED <<extVars, content, fsVars, pause_event, stats, op, argVars,
                   can_resume, downloaded_size, sha256_hash, headers, status_code,
                   stream, supports_resume, accept_ranges, mirVars, cbLog>>

\* Line 336: a Content-Length that is not a number makes int() raise
\* ValueError before the .part file is opened; line 421 catches it.
HeaderMalformed ==
    /\ pc = "get"
    /\ status_code' = 200
    /\ success' = FALSE
    /\ error' = "ValueError"
    /\ pc' = "done"
    /\ UNCHANGED <<extVars, content, fsVars, pause_event, stats, op, argVars,
                   can_resume, downloaded_size, sha256_hash, headers, stream,
                   supports_resume, accept_ranges, mirVars, cbLog>>

\* Line 354: f.write raises OSError (disk full, permission denied); line 421
\* catches it, the bytes written before stay in the .part file.
WriteFails ==
    /\ pc = "write"
    /\ success' = FALSE
    /\ error' = "OSError"
    /\ pc' = "done"
    /\ UNCHANGED <<extVars, content, fsVars, pause_event, stats, op, argVars,
                   can_resume, downloaded_size, sha256_hash, headers, status_code,
                   stream, supports_resume, accept_ranges, mirVars, cbLog>>

\* Line 379: the callback is invoked after the chunk was written and raises;
\* line 421 catches it.
CallbackRaises ==
    /\ pc = "write" /\ progress_callback
    /\ LET chunk == Take(stream, ChunkSize)
           size == downloaded_size + Len(chunk)
       IN  /\ part' = part \o chunk
           /\ downloaded_size' = size
           /\ sha256_hash' = IF sha256_hash # NoHash
                             THEN update_all(sha256_hash, chunk) ELSE NoHash
           /\ stream' = Drop(stream, ChunkSize)
           /\ cbLog' = Append(cbLog, size)
    /\ success' = FALSE
    /\ error' = "Exception"
    /\ pc' = "done"
    /\ UNCHANGED <<extVars, content, dest, meta, pause_event, stats, op, argVars,
                   can_resume, headers, status_code, supports_resume,
                   accept_ranges, mirVars>>

WaitGate_polls ==
    /\ pc = "wait"
    /\ IF pause_event
       THEN pc' = "write" /\ stream' = stream
       ELSE pc' = "iter" /\ stream' = Drop(stream, ChunkSize)
    /\ UNCHANGED <<extVars, error, content, fsVars, pause_event, stats, op, argVars, can_resume,
                   downloaded_size, sha256_hash, headers, status_code,
                   supports_resume, accept_ranges, success, mirVars, cbLog>>

WaitGate_unguarded ==
    /\ pc = "wait"
    /\ pc' = "write"
    /\ UNCHANGED <<extVars, content, fsVars, pause_event, stats, op, argVars, locVars,
                   mirVars, cbLog>>

\* Line 351: pause_event.wait() returns once the event is set.
WaitGate ==
    /\ pc = "wait"
    /\ pause_event
    /\ pc' = "write"
    /\ UNCHANGED <<extVars, content, fsVars, pause_event, stats, op, argVars, locVars,
                   mirVars, cbLog>>

\* Lines 353-392: write the chunk, count it, hash it; when a callback was
\* given and half a second has passed (tick), report progress and, on the
\* 10 MiB cadence of a resumable server, save the sidecar.
Checkpoint(size) == supports_resume /\ size % TenMiB < ChunkSize

WriteChunk ==
    /\ pc = "write"
    /\ LET chunk == Take(stream, ChunkSize)
           size == downloaded_size + Len(chunk)
       IN  /\ part' = part \o chunk
           /\ downloaded_size' = size
           /\ sha256_hash' = IF sha256_hash # NoHash
                             THEN update_all(sha256_hash, chunk) ELSE NoHash
           /\ stream' = Drop(stream, ChunkSize)
           /\ \E tick \in BOOLEAN :
                IF progress_callback /\ tick
                THEN /\ cbLog' = Append(cbLog, size)
                     /\ meta' = IF Checkpoint(size) THEN Record(url, size) ELSE meta
                ELSE UNCHANGED <<cbLog, meta>>
    /\ pc' = "iter"
    /\ UNCHANGED <<extVars, error, content, dest, pause_event, stats, op, argVars, can_resume,
                   headers, status_code, supports_resume, accept_ranges, success,
                   mirVars>>

Rename_skipped ==
    /\ pc = "rename"
    /\ pc' = "verify"
    /\ UNCHANGED <<extVars, content, fsVars, pause_event, stats, op, argVars, locVars,
                   mirVars, cbLog>>

\* Lines 396-398: the .part file is renamed onto the destination.
Rename ==
    /\ pc = "rename"
    /\ IF Exists(part) THEN dest' = part /\ part' = NoFile
                       ELSE UNCHANGED <<dest, part>>
    /\ pc' = "verify"
    /\ UNCHANGED <<extVars, content, meta, pause_event, stats, op, argVars, locVars,
                   mirVars, cbLog>>

\* Lines 400-415: the digest is compared; on a mismatch the destination is
\* unlinked; either way _cleanup_resume_files removes .part and .resume.
Mismatch == /\ expected_sha256 # <<>> /\ sha256_hash # NoHash
            /\ lower(hexdigest(sha256_hash)) # lower(expected_sha256)

cleanup_keeps_sidecar(p, m) == <<NoFile, m>>

\* _cleanup_resume_files: unlink the .part file and the sidecar if they exist.
cleanup_resume_files(p, m) == <<NoFile, NoMeta>>

Verify ==
    /\ pc = "verify"
    /\ dest' = IF Mismatch THEN NoFile ELSE dest
    /\ LET cleaned == cleanup_resume_files(part, meta)
       IN  part' = cleaned[1] /\ meta' = cleaned[2]
    /\ success' = ~Mismatch
    /\ pc' = "done"
    /\ UNCHANGED <<extVars, error, content, pause_event, stats, op, argVars, can_resume,
                   downloaded_size, sha256_hash, headers, status_code, stream,
                   supports_resume, accept_ranges, mirVars, cbLog>>

\* ---------------------------------------------------------------- download
\* download(): lines 446-469.  Nothing is read from the disk before the GET.
EnterPlain(u) ==
    /\ url' = u
    /\ can_resume' = FALSE /\ accept_ranges' = "unasked"
    /\ downloaded_size' = 0
    /\ sha256_hash' = NoHash
    /\ headers' = -1
    /\ status_code' = 0 /\ stream' = <<>> /\ supports_resume' = FALSE
    /\ success' = FALSE /\ error' = "none"
    /\ cbLog' = <<>>
    /\ pc' = "d_get"

\* Lines 454-471: the GET passed raise_for_status; the destination itself is
\* opened 'wb'.
DGet200 ==
    /\ pc = "d_get"
    /\ status_code' = 200
    /\ sha256_hash' = IF expected_sha256 # <<>> THEN sha256 ELSE NoHash
    /\ stream' = Served(url)
    /\ dest' = <<>>
    /\ pc' = "d_iter"
    /\ UNCHANGED <<extVars, error, content, part, meta, pause_event, stats, op, argVars,
                   can_resume, downloaded_size, headers, supports_resume,
                   accept_ranges, success, mirVars, cbLog>>

\* Lines 524-528: a RequestException unlinks the destination if it exists.
DGetFails ==
    /\ pc = "d_get"
    /\ \E st \in {0, 404} : status_code' = st
    /\ dest' = NoFile
    /\ success' = FALSE
    /\ error' = "RequestException"
    /\ pc' = "done"
    /\ UNCHANGED <<extVars, content, part, meta, pause_event, stats, op, argVars,
                   can_resume, downloaded_size, sha256_hash, headers, stream,
                   supports_resume, accept_ranges, mirVars, cbLog>>

\* Lines 472-498: each chunk is written to the destination as it arrives.
DWriteChunk ==
    /\ pc = "d_iter" /\ stream # <<>>
    /\ LET chunk == Take(stream, ChunkSize)
           size == downloaded_size + Len(chunk)
       IN  /\ dest' = dest \o chunk
           /\ downloaded_size' = size
           /\ sha256_hash' = IF sha256_hash # NoHash
                             THEN update_all(sha256_hash, chunk) ELSE NoHash
           /\ stream' = Drop(stream, ChunkSize)
           /\ \E tick \in BOOLEAN :
                cbLog' = IF progress_callback /\ tick THEN Append(cbLog, size)
                                                     ELSE cbLog
    /\ UNCHANGED <<extVars, error, content, part, meta, pause_event, stats, op, pc, argVars,
                   can_resume, headers, status_code, supports_resume,
                   accept_ranges, success, mirVars>>

DStreamFails ==
    /\ pc = "d_iter" /\ stream # <<>>
    /\ dest' = NoFile
    /\ success' = FALSE
    /\ error' = "RequestException"
    /\ pc' = "done"
    /\ UNCHANGED <<extVars, content, part, meta, pause_event, stats, op, argVars,
                   can_resume, downloaded_size, sha256_hash, headers, status_code,
                   stream, supports_resume, accept_ranges, mirVars, cbLog>>

\* Line 457: int() raises ValueError on a Content-Length that is not a number;
\* download() catches RequestException and OSError only, so it propagates.
DHeaderMalformed ==
    /\ pc = "d_get"
    /\ status_code' = 200
    /\ error' = "ValueError"
    /\ pc' = "raised"
    /\ UNCHANGED <<extVars, content, fsVars, pause_event, stats, op, argVars,
                   can_resume, downloaded_size, sha256_hash, headers, stream,
                   supports_resume, accept_ranges, success, mirVars, cbLog>>

\* Lines 529-533: OSError from f.write unlinks the destination.
DWriteFails ==
    /\ pc = "d_iter" /\ stream # <<>>
    /\ dest' = NoFile
    /\ success' = FALSE
    /\ error' = "OSError"
    /\ pc' = "done"
    /\ UNCHANGED <<extVars, content, part, meta, pause_event, stats, op, argVars,
                   can_resume, downloaded_size, sha256_hash, headers, status_code,
                   stream, supports_resume, accept_ranges, mirVars, cbLog>>

\* Line 497: the callback raises; nothing in download() catches it.
DCallbackRaises ==
    /\ pc = "d_iter" /\ stream # <<>> /\ progress_callback
    /\ LET chunk == Take(stream, ChunkSize)
           size == downloaded_size + Len(chunk)
       IN  /\ dest' = dest \o chunk
           /\ downloaded_size' = size
           /\ sha256_hash' = IF sha256_hash # NoHash
                             THEN update_all(sha256_hash, chunk) ELSE NoHash
           /\ stream' = Drop(stream, ChunkSize)
           /\ cbLog' = Append(cbLog, size)
    /\ error' = "Exception"
    /\ pc' = "raised"
    /\ UNCHANGED <<extVars, content, part, meta, pause_event, stats, op, argVars,
                   can_resume, headers, status_code, supports_resume,
                   accept_ranges, success, mirVars>>

\* Lines 500-522: the digest is compared; a mismatch unlinks the destination.
DVerify ==
    /\ pc = "d_iter" /\ stream = <<>>
    /\ dest' = IF Mismatch THEN NoFile ELSE dest
    /\ success' = ~Mismatch
    /\ pc' = "done"
    /\ UNCHANGED <<extVars, error, content, part, meta, pause_event, stats, op, argVars,
                   can_resume, downloaded_size, sha256_hash, headers, status_code,
                   stream, supports_resume, accept_ranges, mirVars, cbLog>>

\* --------------------------------------------------- download_with_mirrors
RECURSIVE ListsUpTo(_)
ListsUpTo(n) == IF n = 0 THEN {<<>>}
                ELSE LET S == ListsUpTo(n - 1)
                     IN  S \cup {Append(l, u) : l \in {t \in S : Len(t) = n - 1}, u \in URLs}
MirrorLists == ListsUpTo(MaxMirrors)
Range(l) == {l[k] : k \in DOMAIN l}

IndexOf(l, x) == CHOOSE k \in DOMAIN l : l[k] = x /\ \A j \in 1..(k - 1) : l[j] # x
remove_every(l, x) == SelectSeq(l, LAMBDA y : y # x)

\* list.remove(x) drops the first x; list.insert(0, x) puts x in front.
remove(l, x) == LET k == IndexOf(l, x) IN SubSeq(l, 1, k - 1) \o SubSeq(l, k + 1, Len(l))
MoveToFront(l, best_url) == <<best_url>> \o remove(l, best_url)

\* select_best_mirror answers with one of the URLs it was given, or None ("").
select_best_mirror(l) == IF l = <<>> THEN {""} ELSE Range(l) \cup {""}

\* Lines 152-163: the candidate list, with the selector's choice moved first.
download_with_mirrors ==
    /\ op = "none" /\ pc = "idle"
    /\ \E primary_url \in URLs, mirrors \in MirrorLists, exp \in Expected,
          auto_select_best \in BOOLEAN, ar \in BOOLEAN, cb \in BOOLEAN :
         LET urls == <<primary_url>> \o mirrors
         IN  /\ candidates' = urls
             /\ \E best_url \in (IF auto_select_best /\ Len(urls) > 1
                                 THEN select_best_mirror(urls) ELSE {""}) :
                    all_urls' = IF best_url # "" THEN MoveToFront(urls, best_url)
                                                ELSE urls
             /\ expected_sha256' = exp /\ allow_resume' = ar
             /\ progress_callback' = cb
    /\ i' = 1 /\ mpc' = "loop" /\ ledgerLog' = <<>>
    /\ op' = "mirrors"
    /\ UNCHANGED <<extVars, content, fsVars, pause_event, stats, pc, url, locVars, cbLog>>

\* Lines 165-188: the next candidate is handed to download_with_resume, or to
\* download when resumption is off.
Attempt ==
    /\ op = "mirrors" /\ mpc = "loop" /\ pc = "idle"
    /\ i <= Len(all_urls)
    /\ IF allow_resume
       THEN \E probe \in (IF SidecarValid(all_urls[i], TRUE) THEN BOOLEAN ELSE {FALSE}) :
                Enter(all_urls[i], expected_sha256, TRUE, progress_callback, probe)
       ELSE EnterPlain(all_urls[i]) /\ UNCHANGED <<expected_sha256, allow_resume,
                                                   progress_callback, gate_hist>>
    /\ mpc' = "call"
    /\ UNCHANGED <<calmVars, content, fsVars, pause_event, stats, op, all_urls, i, candidates,
                   ledgerLog>>

\* Lines 190-203: the outcome goes to the ledger; a success returns True, a
\* failure moves on to the next candidate.  The frame of the finished call
\* is gone.
Elapsed == 1..MaxElapsed

RecordOutcome ==
    /\ op = "mirrors" /\ mpc = "call" /\ pc = "done"
    /\ IF success
       THEN \E elapsed_ms \in Elapsed :
                /\ stats' = record_success(stats, url, elapsed_ms)
                /\ ledgerLog' = Append(ledgerLog, <<url, "success", elapsed_ms>>)
                /\ mpc' = "done" /\ i' = i
       ELSE /\ stats' = record_failure(stats, url)
            /\ ledgerLog' = Append(ledgerLog, <<url, "failure", 0>>)
            /\ mpc' = "loop" /\ i' = i + 1
    /\ pc' = "idle"
    /\ url' = "" /\ can_resume' = FALSE /\ downloaded_size' = 0
    /\ sha256_hash' = NoHash /\ headers' = -1 /\ status_code' = 0
    /\ stream' = <<>> /\ supports_resume' = FALSE /\ accept_ranges' = "unasked"
    /\ cbLog' = <<>>
    /\ stats_file' = stats'
    /\ UNCHANGED <<ledVars, rankVars, selVars, pathVars, auxVars, error, content, fsVars,
                   pause_event, op, expected_sha256, allow_resume,
                   progress_callback, success, all_urls, candidates>>

\* Line 205: every candidate failed.
Exhausted ==
    /\ op = "mirrors" /\ mpc = "loop" /\ i > Len(all_urls)
    /\ mpc' = "done"
    /\ UNCHANGED <<extVars, content, fsVars, pause_event, stats, op, pc, argVars, locVars,
                   all_urls, i, candidates, ledgerLog, cbLog>>

\* Lines 173-188: the call of download() or download_with_resume is not
\* guarded; what it raises leaves download_with_mirrors.
Propagate ==
    /\ op = "mirrors" /\ mpc = "call" /\ pc = "raised"
    /\ mpc' = "raised"
    /\ UNCHANGED <<extVars, content, fsVars, pause_event, stats, op, pc, argVars,
                   locVars, all_urls, i, candidates, ledgerLog, cbLog>>

\* Line 192: the first get_stats_tracker() constructs the tracker, whose
\* _get_stats_file creates ~/.cache/luxusb; an OSError there is not caught.
StatsTrackerFails ==
    /\ op = "mirrors" /\ mpc = "call" /\ pc = "done"
    /\ ledgerLog = <<>>
    /\ mpc' = "raised"
    /\ UNCHANGED <<extVars, content, fsVars, pause_event, stats, op, pc, argVars,
                   locVars, all_urls, i, candidates, ledgerLog, cbLog>>

\* -------------------------------------------- the ledger, thread by thread
MaxCalls == 3        \* ledger calls begun in one run of the model
MaxNow == 2          \* days the clock may advance
CleanupDays == 1     \* cleanup_old_stats(days=30), scaled to the clock
MinSuccessRate == 50 \* get_healthy_mirrors(min_success_rate=50.0)

Table(k) == IF k = "engine" THEN stats ELSE selector_stats
Call(kind, k, u, ms, l) ==
    [kind |-> kind, tracker |-> k, mirror_url |-> u, response_time_ms |-> ms,
     mirror_urls |-> l]
\* The calls the threads make name two of the URLs, singly or in a pair.
LedgerURLs == {"u1", "u2"}
LedgerLists == {<<u>> : u \in LedgerURLs} \cup {<<u, v>> : u, v \in LedgerURLs}
\* A recorded response is the fastest or the slowest one.
LedgerElapsed == {1, MaxElapsed}
Calls(k) ==
    {Call("record_success", k, u, ms, <<>>) : u \in LedgerURLs, ms \in LedgerElapsed}
    \cup {Call(kind, k, u, 0, <<>>) : kind \in {"record_failure", "get_stats"},
                                    u \in LedgerURLs}
    \cup {Call(kind, k, "", 0, l) : kind \in {"rank_mirrors", "get_healthy_mirrors"},
                                    l \in LedgerLists}
    \cup {Call("cleanup_old_stats", k, "", 0, <<>>)}
Recording(t) == call[t].kind \in {"record_success", "record_failure"}
Reading(t) == call[t].kind \in {"get_stats", "rank_mirrors", "get_healthy_mirrors"}

\* A thread calls a method of one of the trackers in use.
BeginCall ==
    /\ ncalls < MaxCalls
    /\ \E t \in Threads :
         /\ tpc[t] = "idle"
         /\ \E k \in live : \E c \in Calls(k) : call' = [call EXCEPT ![t] = c]
         /\ tpc' = [tpc EXCEPT ![t] = "lock"]
    /\ ncalls' = ncalls + 1
    /\ UNCHANGED <<xferVars, stats, stats_file, selector_stats, lock, tmp, ret,
                   recorded, now, live, rankVars, selVars, pathVars, auxVars>>

acquire_unguarded ==
    \E t \in Threads :
        /\ tpc[t] = "lock"
        /\ lock' = [lock EXCEPT ![call[t].tracker] = t]
        /\ tpc' = [tpc EXCEPT ![t] = "locked"]
        /\ UNCHANGED <<xferVars, stats, stats_file, selector_stats, call, tmp, ret,
                       recorded, ncalls, now, live, rankVars, selVars, pathVars, auxVars>>

\* with self._lock: the thread enters once the lock of its tracker is free.
acquire ==
    \E t \in Threads :
        /\ tpc[t] = "lock"
        /\ lock[call[t].tracker] = "free"
        /\ lock' = [lock EXCEPT ![call[t].tracker] = t]
        /\ tpc' = [tpc EXCEPT ![t] = "locked"]
        /\ UNCHANGED <<xferVars, stats, stats_file, selector_stats, call, tmp, ret,
                       recorded, ncalls, now, live, rankVars, selVars, pathVars, auxVars>>

\* Lines 102-105 and 117-120: the entry is created if the URL has none, and
\* its counters are read.
LoadEntry ==
    \E t \in Threads :
        /\ tpc[t] = "locked" /\ Recording(t)
        /\ LET k == call[t].tracker
               u == call[t].mirror_url
               new == [Table(k) EXCEPT ![u] = MirrorStats(@)]
           IN  /\ stats' = IF k = "engine" THEN new ELSE stats
               /\ selector_stats' = IF k = "selector" THEN new ELSE selector_stats
               /\ tmp' = [tmp EXCEPT ![t] =
                     [success_count |-> new[u].success_count,
                      failure_count |-> new[u].failure_count,
                      total_response_time_ms |-> new[u].total_response_time_ms]]
        /\ tpc' = [tpc EXCEPT ![t] = "loaded"]
        /\ UNCHANGED <<xferVars, stats_file, lock, call, ret, recorded, ncalls, now,
                       live, rankVars, selVars, pathVars, auxVars>>

Written_marks_used(entry, ok, counts, response_time_ms) ==
    IF ok
    THEN [entry EXCEPT !.present = TRUE,
                       !.success_count = counts.success_count + 1,
                       !.total_response_time_ms =
                           counts.total_response_time_ms + response_time_ms,
                       !.last_used = now,
                       !.last_updated = now]
    ELSE [entry EXCEPT !.present = TRUE,
                       !.failure_count = counts.failure_count + 1,
                       !.last_used = now,
                       !.last_updated = now]

\* Lines 106-110 and 121-122: what the entry holds once the counters read
\* have been written back, increased, and the timestamps set.
Written(entry, ok, counts, response_time_ms) ==
    IF ok
    THEN [entry EXCEPT !.present = TRUE,
                       !.success_count = counts.success_count + 1,
                       !.total_response_time_ms =
                           counts.total_response_time_ms + response_time_ms,
                       !.last_used = now,
                       !.last_updated = now]
    ELSE [entry EXCEPT !.present = TRUE,
                       !.failure_count = counts.failure_count + 1,
                       !.last_updated = now]

\* Lines 106-110 and 121-122: the entry is written back.
StoreEntry ==
    \E t \in Threads :
        /\ tpc[t] = "loaded"
        /\ LET k == call[t].tracker
               u == call[t].mirror_url
               ok == call[t].kind = "record_success"
               new == [Table(k) EXCEPT ![u] =
                         Written(@, ok, tmp[t], call[t].response_time_ms)]
           IN  /\ stats' = IF k = "engine" THEN new ELSE stats
               /\ selector_stats' = IF k = "selector" THEN new ELSE selector_stats
               /\ recorded' = [recorded EXCEPT ![u] =
                     IF ok THEN [@ EXCEPT !.success_count = @ + 1]
                           ELSE [@ EXCEPT !.failure_count = @ + 1]]
        /\ tpc' = [tpc EXCEPT ![t] = "save"]
        /\ UNCHANGED <<xferVars, stats_file, lock, call, tmp, ret, ncalls, now,
                       live, rankVars, selVars, pathVars, auxVars>>

\* _save_stats: the whole table of this tracker replaces the file.
save_stats ==
    \E t \in Threads :
        /\ tpc[t] = "save"
        /\ stats_file' = Table(call[t].tracker)
        /\ tpc' = [tpc EXCEPT ![t] = "unlock"]
        /\ UNCHANGED <<xferVars, stats, selector_stats, lock, call, tmp, ret,
                       recorded, ncalls, now, live, rankVars, selVars, pathVars, auxVars>>

\* get_stats, rank_mirrors, get_healthy_mirrors: the table is read.
ReadTable ==
    \E t \in Threads :
        /\ tpc[t] = "locked" /\ Reading(t)
        /\ LET st == Table(call[t].tracker)
           IN  ret' = [ret EXCEPT ![t] =
                 CASE call[t].kind = "get_stats" ->
                          [NoResult EXCEPT !.entry = st[call[t].mirror_url]]
                   [] call[t].kind = "rank_mirrors" ->
                          [NoResult EXCEPT !.urls = rank_mirrors(st, call[t].mirror_urls)]
                   [] OTHER ->
                          [NoResult EXCEPT !.urls =
                              get_healthy_mirrors(st, call[t].mirror_urls,
                                                  MinSuccessRate)]]
        /\ tpc' = [tpc EXCEPT ![t] = "unlock"]
        /\ UNCHANGED <<xferVars, stats, stats_file, selector_stats, lock, call, tmp,
                       recorded, ncalls, now, live, rankVars, selVars, pathVars, auxVars>>

\* cleanup_old_stats: the entries last updated before the cutoff are deleted;
\* the table is saved only when one was.
Outdated(st) == {u \in URLs : /\ st[u].present
                              /\ st[u].last_updated # None
                              /\ st[u].last_updated < now - CleanupDays}
RemoveOld ==
    \E t \in Threads :
        /\ tpc[t] = "locked" /\ call[t].kind = "cleanup_old_stats"
        /\ LET k == call[t].tracker
               to_remove == Outdated(Table(k))
               new == [u \in URLs |-> IF u \in to_remove THEN NoStats ELSE Table(k)[u]]
           IN  /\ stats' = IF k = "engine" THEN new ELSE stats
               /\ selector_stats' = IF k = "selector" THEN new ELSE selector_stats
               /\ recorded' = [u \in URLs |->
                     IF u \in to_remove
                     THEN [success_count |-> 0, failure_count |-> 0]
                     ELSE recorded[u]]
               /\ ret' = [ret EXCEPT ![t] =
                            [NoResult EXCEPT !.removed = Cardinality(to_remove)]]
               /\ tpc' = [tpc EXCEPT ![t] = IF to_remove # {} THEN "save" ELSE "unlock"]
        /\ UNCHANGED <<xferVars, stats_file, lock, call, tmp, ncalls, now, live,
                       rankVars, selVars, pathVars, auxVars>>

\* The with block ends: the lock is released and the call returns.
release ==
    \E t \in Threads :
        /\ tpc[t] = "unlock"
        /\ lock' = [lock EXCEPT ![call[t].tracker] = "free"]
        /\ tpc' = [tpc EXCEPT ![t] = "idle"]
        /\ call' = [call EXCEPT ![t] = NoCall]
        /\ tmp' = [tmp EXCEPT ![t] = NoCounts]
        /\ ret' = [ret EXCEPT ![t] = NoResult]
        /\ UNCHANGED <<xferVars, stats, stats_file, selector_stats, recorded,
                       ncalls, now, live, rankVars, selVars, pathVars, auxVars>>

\* A day passes.
Tick ==
    /\ now < MaxNow
    /\ now' = now + 1
    /\ UNCHANGED <<xferVars, stats, stats_file, selector_stats, lock, tpc, call,
                   tmp, ret, recorded, ncalls, live, rankVars, selVars, pathVars, auxVars>>

\* ------------------------------------------------------------ rank_mirrors
\* rank_mirrors is called, once, with a list of candidate URLs.
CandidateLists == ListsUpTo(MaxMirrors + 1)
RankCall ==
    /\ rank_input = <<>>
    /\ \E mirror_urls \in CandidateLists :
         /\ rank_input' = mirror_urls
         /\ ranked' = rank_mirrors(stats, mirror_urls)
    /\ UNCHANGED <<xferVars, stats, stats_file, ledVars, selVars, pathVars, auxVars>>

\* ------------------------------------------- MirrorSelector, probe by probe
\* probes[k] is the outcome of the probe of sel_mirrors[k]: 0 while it runs,
\* -1 for None (unavailable or timed out), else the milliseconds measured.
\* results is the dict of lines 116-133 and 172, in insertion order.
Pending == {k \in DOMAIN probes : probes[k] = 0}
Put(d, key, value) ==
    IF \E j \in DOMAIN d : d[j][1] = key
    THEN [j \in DOMAIN d |-> IF d[j][1] = key THEN <<key, value>> ELSE d[j]]
    ELSE Append(d, <<key, value>>)

\* Lines 152-167: an empty input returns None at once; otherwise the healthy
\* mirrors, or all of them when none is healthy, are ranked and probed.
PreRanked(st, mirrors) ==
    LET healthy_mirrors == get_healthy_mirrors(st, mirrors, MinSuccessRate)
        kept == IF healthy_mirrors # <<>> THEN healthy_mirrors ELSE mirrors
    IN  rank_mirrors(st, kept)
SelectOn(st) ==
    /\ spc = "idle"
    /\ \E mirrors \in CandidateLists, parallel \in BOOLEAN :
         LET ordered == PreRanked(st, mirrors)
         IN  /\ sel_input' = mirrors
             /\ test_parallel' = parallel
             /\ sel_mirrors' = ordered
             /\ probes' = [k \in DOMAIN ordered |-> 0]
             /\ spc' = IF mirrors = <<>> THEN "returned" ELSE "probing"
    /\ results' = <<>>
    /\ selected' = ""
SelectCall ==
    /\ SelectOn(selector_stats)
    /\ UNCHANGED <<xferVars, stats, stats_file, ledVars, rankVars, pathVars, auxVars>>

\* Lines 126-133 (as_completed: any running probe may finish next) and line
\* 172 (the probes run one after the other, in list order).
ProbeCompletes ==
    /\ spc = "probing"
    /\ \E k \in Pending, speed \in {-1} \cup Elapsed :
         /\ (test_parallel /\ Len(sel_mirrors) > 1) \/ (\A j \in Pending : k <= j)
         /\ probes' = [probes EXCEPT ![k] = speed]
         /\ results' = Put(results, sel_mirrors[k], speed)
    /\ UNCHANGED <<xferVars, stats, stats_file, ledVars, rankVars, pathVars, auxVars,
                   sel_input, sel_mirrors, test_parallel, selected, spc>>

\* Lines 174-187: the first of the available entries with the lowest speed.
Fastest(available) ==
    LET first == CHOOSE j \in DOMAIN available :
                    /\ \A k \in DOMAIN available : available[j][2] <= available[k][2]
                    /\ \A k \in 1..(j - 1) : available[k][2] > available[j][2]
    IN  available[first][1]
SelectReturn ==
    /\ spc = "probing" /\ Pending = {}
    /\ LET available == SelectSeq(results, LAMBDA r : r[2] # -1)
       IN  selected' = IF available = <<>> THEN "" ELSE Fastest(available)
    /\ spc' = "returned"
    /\ UNCHANGED <<xferVars, stats, stats_file, ledVars, rankVars, pathVars, auxVars,
                   sel_input, sel_mirrors, test_parallel, probes, results>>

\* ------------------------------------------------- the paths of a download
\* A file name is a sequence of characters; the directory part of a path is
\* left alone by with_suffix and is not modelled.
MaxName == 4         \* longest destination file name, in characters
NameChars == {"a", "b", "."}
RECURSIVE NamesUpTo(_)
NamesUpTo(n) == IF n = 0 THEN {<<>>}
                ELSE LET S == NamesUpTo(n - 1)
                     IN  S \cup {Append(x, c) : x \in {y \in S : Len(y) = n - 1},
                                                c \in NameChars}
Names == {x \in NamesUpTo(MaxName) : \E j \in DOMAIN x : x[j] # "."}

\* FileExtension.PART and FileExtension.RESUME, shortened to two characters.
PART == <<".", "p">>
RESUME == <<".", "r">>

\* PurePath.suffix: the name from its last dot on, when that dot is neither
\* the first nor the last character; else the empty string.
suffix(name) ==
    LET dots == {j \in DOMAIN name : name[j] = "."}
        last == IF dots = {} THEN 0 ELSE CHOOSE j \in dots : \A k \in dots : k <= j
    IN  IF 1 < last /\ last < Len(name) THEN SubSeq(name, last, Len(name)) ELSE <<>>

\* PurePath.with_suffix: the old suffix, if any, is cut off and the new one
\* is put in its place.
with_suffix(name, new_suffix) ==
    SubSeq(name, 1, Len(name) - Len(suffix(name))) \o new_suffix

\* Lines 291 and 207-209: the .part file and the sidecar of a destination.
NamePaths ==
    /\ destination = <<>>
    /\ \E d \in Names :
         /\ destination' = d
         /\ part_file' = with_suffix(d, PART)
         /\ metadata_path' = with_suffix(d, RESUME)
    /\ UNCHANGED <<xferVars, stats, stats_file, ledVars, rankVars, selVars, auxVars>>

\* ------------------------------------------------------------- _load_stats
\* mirror_stats.json as found on disk: absent, cut off in the middle (json.load
\* raises), a JSON array (data.items() raises), or a JSON object whose items
\* are, in file order, pairs of a URL and a value.  A value is a well-formed
\* entry, or one that MirrorStats(**stats_dict) refuses: a dict without the
\* url field, a dict with a field MirrorStats does not have, or no dict.
MaxItems == 2        \* most items of a mirror_stats.json object
Malformed == {"missing_url", "unknown_field", "not_a_dict"}
WellFormed ==
    {[present |-> TRUE, success_count |-> 1, failure_count |-> 0,
      total_response_time_ms |-> 1, last_used |-> 0, last_updated |-> 0],
     [present |-> TRUE, success_count |-> 0, failure_count |-> 1,
      total_response_time_ms |-> 0, last_used |-> None, last_updated |-> 0]}
Values ==
    {[kind |-> "entry", entry |-> e] : e \in WellFormed}
    \cup {[kind |-> k, entry |-> NoStats] : k \in Malformed}
Refused(v) == v.kind \in Malformed
RECURSIVE ItemsUpTo(_)
ItemsUpTo(n) ==
    IF n = 0 THEN {<<>>}
    ELSE LET S == ItemsUpTo(n - 1)
         IN  S \cup {Append(l, <<u, v>>) :
                        l \in {t \in S : Len(t) = n - 1},
                        u \in URLs, v \in Values}
\* The keys of a JSON object, once parsed, differ from one another.
DistinctKeys(l) == \A j, k \in DOMAIN l : j # k => l[j][1] # l[k][1]
RawFiles ==
    {AbsentFile, [form |-> "truncated", items |-> <<>>],
     [form |-> "array", items |-> <<>>]}
    \cup {[form |-> "object", items |-> l] :
             l \in {t \in ItemsUpTo(MaxItems) : DistinctKeys(t)}}

\* Lines 77-79: the items are stored one by one; the first one that
\* MirrorStats(**stats_dict) refuses ends the loop, in the handler of line 83.
RECURSIVE LoadItems(_, _)
LoadItems(st, items) ==
    IF items = <<>> THEN st
    ELSE IF Refused(Head(items)[2]) THEN st
    ELSE LoadItems([st EXCEPT ![Head(items)[1]] = Head(items)[2].entry], Tail(items))

\* _load_stats, lines 68-84: _stats starts empty; a missing file returns at
\* once; an exception while reading or converting is logged, not raised.
load_stats(raw) ==
    IF raw.form # "object" THEN EmptyTable ELSE LoadItems(EmptyTable, raw.items)

\* MirrorStatsTracker(): the tracker is constructed over the file as it is.
Construct ==
    /\ live = {}
    /\ stats' = load_stats(raw_file)
    /\ live' = {"engine"}
    /\ UNCHANGED <<xferVars, stats_file, selector_stats, lock, tpc, call, tmp, ret,
                   recorded, ncalls, now, rankVars, selVars, pathVars, auxVars>>

\* --------------------------------------------------------- UpdateScheduler
MaxIntervalDays == 3 \* the ceiling of 365 days of set_check_interval_days, scaled
SkipKeys == {"ubuntu-24.04"}
Hours == {1, 2}      \* set_remind_later(hours): the delays asked for, in days
SkipDays == {1, 2}   \* set_skip_date(days): the periods asked for, in days

\* datetime.now() < the timestamp, for a timestamp fromisoformat accepts.
Active(t) == t >= 0 /\ now < t

\* Lines 92-98 and 104-109: a timestamp fromisoformat refuses is cleared.
Cleared(t) == IF t = Invalid THEN None ELSE t

Due_after(last_check, check_interval_days) == now > last_check + check_interval_days

\* Lines 118-126: not datetime.now() < last_check_time + timedelta(days).
Due(last_check, check_interval_days) == ~(now < last_check + check_interval_days)

\* should_check_for_updates, lines 73-131: the answer and the preferences it
\* leaves behind.
ShouldCheck(p) ==
    IF ~p.enabled THEN <<FALSE, p>>
    ELSE IF ~p.auto_check_on_startup THEN <<FALSE, p>>
    ELSE IF Active(p.remind_later_until) THEN <<FALSE, p>>
    ELSE LET p1 == [p EXCEPT !.remind_later_until = Cleared(@)]
         IN  IF Active(p1.skip_until_date) THEN <<FALSE, p1>>
             ELSE LET p2 == [p1 EXCEPT !.skip_until_date = Cleared(@)]
                      last_check == p2.last_check_timestamp
                  IN  IF last_check = None \/ last_check = Invalid THEN <<TRUE, p2>>
                      ELSE <<Due(last_check, p2.check_interval_days), p2>>

\* _save_preferences runs in clear_remind_later and clear_skip_date only.
should_check_for_updates ==
    /\ LET r == ShouldCheck(preferences)
       IN  /\ preferences' = r[2]
           /\ prefs_file' = IF r[2] # preferences THEN r[2] ELSE prefs_file
           /\ sched_call' = IF r[1] THEN "True" ELSE "False"
    /\ UNCHANGED <<xferVars, stats, stats_file, ledVars, rankVars, selVars, pathVars,
                   raw_file, pair, gate_hist>>

Set(p, name) ==
    /\ preferences' = p
    /\ prefs_file' = p
    /\ sched_call' = name
    /\ UNCHANGED <<xferVars, stats, stats_file, ledVars, rankVars, selVars, pathVars,
                   raw_file, pair, gate_hist>>

\* Lines 133-138.
mark_check_completed ==
    Set([preferences EXCEPT !.last_check_timestamp = now,
                            !.remind_later_until = None], "mark_check_completed")

set_remind_later ==
    \E hours \in Hours :
        Set([preferences EXCEPT !.remind_later_until = now + hours], "set_remind_later")

clear_remind_later ==
    Set([preferences EXCEPT !.remind_later_until = None], "clear_remind_later")

set_skip_date ==
    \E days \in SkipDays :
        Set([preferences EXCEPT !.skip_until_date = now + days], "set_skip_date")

clear_skip_date ==
    Set([preferences EXCEPT !.skip_until_date = None], "clear_skip_date")

\* Lines 177-191: the key is appended, and the file written, only when the
\* list does not hold it yet.
add_skip_version ==
    \E skip_key \in SkipKeys :
        /\ sched_call' = "add_skip_version"
        /\ IF \E k \in DOMAIN preferences.skip_versions :
                  preferences.skip_versions[k] = skip_key
           THEN UNCHANGED <<preferences, prefs_file>>
           ELSE /\ preferences' = [preferences EXCEPT !.skip_versions = Append(@, skip_key)]
                /\ prefs_file' = preferences'
        /\ UNCHANGED <<xferVars, stats, stats_file, ledVars, rankVars, selVars,
                       pathVars, raw_file, pair,
                       gate_hist>>

clear_skip_versions ==
    Set([preferences EXCEPT !.skip_versions = <<>>], "clear_skip_versions")

\* Lines 221-231: days = max(1, min(365, days)).
Clamp(days) == IF days < 1 THEN 1 ELSE IF days > MaxIntervalDays THEN MaxIntervalDays ELSE days
set_check_interval_days ==
    \E days \in 0..(MaxIntervalDays + 1) :
        Set([preferences EXCEPT !.check_interval_days = Clamp(days)],
            "set_check_interval_days")

set_auto_check_enabled ==
    \E enabled \in BOOLEAN :
        Set([preferences EXCEPT !.auto_check_on_startup = enabled],
            "set_auto_check_enabled")

\* A day passes; what the scheduler last answered is of the day before.
SchedTick ==
    /\ now < MaxNow
    /\ now' = now + 1
    /\ sched_call' = "none"
    /\ UNCHANGED <<xferVars, stats, stats_file, selector_stats, lock, tpc, call,
                   tmp, ret, recorded, ncalls, live, rankVars, selVars, pathVars,
                   raw_file, preferences, prefs_file, pair, gate_hist>>

\* ------------------------------------ the Engine and the Selector, one process
\* get_stats_tracker and get_mirror_selector (downloader.py 22-36): each
\* object is constructed at its first use, and the Selector constructs a
\* MirrorStatsTracker of its own (mirror_selector.py 55), which loads the file
\* as it is then.
SelectorTable == IF "selector" \in live THEN selector_stats ELSE stats_file
EngineTable == IF "engine" \in live THEN stats ELSE stats_file

\* Lines 155-158: download_with_mirrors asks the Selector for the best URL.
ProcessSelect ==
    /\ SelectOn(SelectorTable)
    /\ selector_stats' = SelectorTable
    /\ live' = live \cup {"selector"}
    /\ UNCHANGED <<xferVars, stats, stats_file, lock, tpc, call, tmp, ret, recorded,
                   ncalls, now, rankVars, pathVars, auxVars>>

\* Line 158 returns: the caller has the answer and the frame of the call is
\* gone.
SelectDone ==
    /\ spc = "returned"
    /\ sel_input' = <<>> /\ sel_mirrors' = <<>> /\ test_parallel' = TRUE
    /\ probes' = <<>> /\ results' = <<>> /\ selected' = "" /\ spc' = "idle"
    /\ UNCHANGED <<xferVars, stats, stats_file, ledVars, rankVars, pathVars, auxVars>>

\* Lines 190-199: download_with_mirrors records the outcome of an attempt
\* through the Engine's tracker, which writes its table to the file.
MaxRecords == 2      \* outcomes the Engine records in one run of the model
EngineRecord ==
    /\ ncalls < MaxRecords
    /\ \E u \in LedgerURLs, ok \in BOOLEAN, elapsed_ms \in LedgerElapsed :
         /\ ok \/ elapsed_ms = 1
         /\ stats' = IF ok THEN record_success(EngineTable, u, elapsed_ms)
                          ELSE record_failure(EngineTable, u)
         /\ recorded' = [recorded EXCEPT ![u] =
               IF ok THEN [@ EXCEPT !.success_count = @ + 1]
                     ELSE [@ EXCEPT !.failure_count = @ + 1]]
    /\ stats_file' = stats'
    /\ live' = live \cup {"engine"}
    /\ ncalls' = ncalls + 1
    /\ UNCHANGED <<xferVars, selector_stats, lock, tpc, call, tmp, ret, now,
                   rankVars, selVars, pathVars, auxVars>>


\* ------------------------------- download_with_resume, two calls at a time
\* f.write on a handle opened 'ab' lands at the end of the file; on a handle
\* opened 'wb' it lands at the handle's own offset, and the gap a truncation
\* by another handle left before that offset reads as zeros.
WriteAt(file, mode, pos, chunk) ==
    IF mode = "ab" THEN file \o chunk
    ELSE [k \in 1..(IF Len(file) > pos + Len(chunk) THEN Len(file)
                                                       ELSE pos + Len(chunk)) |->
            IF k > pos /\ k <= pos + Len(chunk) THEN chunk[k - pos]
            ELSE IF k <= Len(file) THEN file[k] ELSE 0]

\* The handles other workers hold follow the file when a name is moved or
\* removed: rename(part, destination) and unlink(part).
AfterRename(w) ==
    [v \in Workers |->
        IF v = w THEN pair[v]
        ELSE [pair[v] EXCEPT !.at = CASE @ = "part" -> "dest"
                                      [] @ = "dest" -> "gone"
                                      [] OTHER -> @]]
AfterUnlink(p, w) ==
    [v \in Workers |->
        IF v = w THEN p[v]
        ELSE [p[v] EXCEPT !.at = IF @ = "part" THEN "gone" ELSE @]]

\* Lines 284-317: the call of worker w; nothing is tested but the files.
PairCall(w) ==
    /\ pair[w].pc = "idle"
    /\ \E u \in {"u1", "u3"}, cb \in BOOLEAN :
       \E probe \in (IF SidecarValid(u, TRUE) THEN BOOLEAN ELSE {FALSE}) :
         LET can == SidecarValid(u, TRUE) /\ probe
             size == IF Exists(part) /\ meta.state = "ok" /\ meta.url = u
                     THEN Len(part) ELSE 0
         IN  pair' = [pair EXCEPT ![w] =
                 [NoTransfer EXCEPT !.pc = "get", !.url = u,
                                    !.progress_callback = cb,
                                    !.can_resume = can,
                                    !.downloaded_size = size,
                                    !.headers = IF can /\ size > 0 THEN size ELSE -1]]
    /\ UNCHANGED <<fsVars, restVars>>

\* Lines 320-348: the GET is answered 206 or 200 and the .part file is
\* opened: 'wb' truncates the file under that name or creates it, 'ab'
\* keeps it or creates it.
PairOpen(w) ==
    /\ pair[w].pc = "get"
    /\ \E status \in {200, 206}, probe \in BOOLEAN :
         /\ status = 206 => /\ pair[w].headers >= 0
                            /\ pair[w].headers < Len(Served(pair[w].url))
         /\ LET resumed == pair[w].can_resume /\ status = 206
            IN  /\ part' = IF resumed /\ Exists(part) THEN part ELSE <<>>
                /\ pair' = [pair EXCEPT ![w] =
                      [@ EXCEPT !.pc = "iter",
                                !.mode = IF resumed THEN "ab" ELSE "wb",
                                !.downloaded_size = IF resumed THEN @ ELSE 0,
                                !.pos = 0,
                                !.stream = IF status = 206
                                           THEN Drop(Served(pair[w].url), pair[w].headers)
                                           ELSE Served(pair[w].url),
                                !.supports_resume = probe,
                                !.at = "part"]]
    /\ UNCHANGED <<dest, meta, restVars>>

\* Lines 349-392: past the gate, the next chunk is written through the
\* worker's handle and counted; with a callback and half a second gone
\* (tick), on the 10 MiB cadence of a resumable server, the sidecar is saved.
PairWrite(w) ==
    /\ pair[w].pc = "iter" /\ pair[w].stream # <<>>
    /\ pause_event
    /\ LET p == pair[w]
           chunk == Take(p.stream, ChunkSize)
           size == p.downloaded_size + Len(chunk)
       IN  /\ part' = IF p.at = "part" THEN WriteAt(part, p.mode, p.pos, chunk) ELSE part
           /\ dest' = IF p.at = "dest" THEN WriteAt(dest, p.mode, p.pos, chunk) ELSE dest
           /\ pair' = [pair EXCEPT ![w] =
                 [@ EXCEPT !.downloaded_size = size,
                           !.pos = @ + Len(chunk),
                           !.stream = Drop(p.stream, ChunkSize)]]
           /\ \E tick \in BOOLEAN :
                meta' = IF /\ p.progress_callback /\ tick
                           /\ p.supports_resume /\ size % TenMiB < ChunkSize
                        THEN Record(p.url, size) ELSE meta
    /\ UNCHANGED restVars

\* Lines 417-420: iter_content raises; the with block closes the handle.
PairStreamFails(w) ==
    /\ pair[w].pc = "iter" /\ pair[w].stream # <<>>
    /\ pair' = [pair EXCEPT ![w] = [@ EXCEPT !.pc = "done", !.at = "closed"]]
    /\ UNCHANGED <<fsVars, restVars>>

\* Line 349: iter_content is exhausted and the with block closes the handle.
PairClose(w) ==
    /\ pair[w].pc = "iter" /\ pair[w].stream = <<>>
    /\ pair' = [pair EXCEPT ![w] = [@ EXCEPT !.pc = "rename", !.at = "closed"]]
    /\ UNCHANGED <<fsVars, restVars>>

\* Lines 396-398: the .part file, if one is there, is renamed onto the
\* destination.
PairRename(w) ==
    /\ pair[w].pc = "rename"
    /\ IF Exists(part)
       THEN /\ dest' = part /\ part' = NoFile
            /\ pair' = [AfterRename(w) EXCEPT ![w].pc = "cleanup"]
       ELSE /\ UNCHANGED <<dest, part>>
            /\ pair' = [pair EXCEPT ![w].pc = "cleanup"]
    /\ UNCHANGED <<meta, restVars>>

\* Lines 411-413: no checksum was asked for; _cleanup_resume_files removes
\* the .part file and the sidecar, and the call returns True.
PairCleanup(w) ==
    /\ pair[w].pc = "cleanup"
    /\ part' = NoFile /\ meta' = NoMeta
    /\ pair' = [AfterUnlink(pair, w) EXCEPT ![w].pc = "done", ![w].success = TRUE]
    /\ UNCHANGED <<dest, restVars>>
\* ---------------------------------------------------------- specifications
\* The worker of download_with_resume.
Worker ==
    \/ Get200 \/ Get206
    \/ NextChunk \/ WaitGate \/ WriteChunk
    \/ Rename \/ Verify

\* One download_with_resume call, with pause() and resume() at any moment.
Next ==
    \/ pause \/ resume
    \/ download_with_resume
    \/ Worker
    \/ GetFails \/ StreamFails
    \/ HeaderMalformed \/ WriteFails \/ CallbackRaises

Spec == Init /\ [][Next]_vars

\* One download_with_resume call against servers that answer every request and
\* deliver every chunk.  The worker thread is scheduled again whenever it can
\* take a step; the caller thread is under no obligation.  The origin
\* publishes one body of full length.
FullBody == [k \in 1..MaxLen |-> 1]
LiveInit == Init /\ content = FullBody

LiveNext ==
    \/ pause \/ resume
    \/ download_with_resume
    \/ Worker

LiveSpec == LiveInit /\ [][LiveNext]_vars /\ WF_vars(Worker)

\* One download_with_mirrors call for one body of full length, on a disk that
\* holds nothing yet.
MirrorInit == Init /\ part = NoFile /\ content = FullBody

MirrorNext ==
    \/ pause \/ resume
    \/ download_with_mirrors
    \/ Attempt \/ RecordOutcome \/ Exhausted
    \/ Worker
    \/ GetFails \/ StreamFails
    \/ HeaderMalformed \/ WriteFails \/ CallbackRaises
    \/ DGet200 \/ DGetFails \/ DWriteChunk \/ DStreamFails \/ DVerify
    \/ DHeaderMalformed \/ DWriteFails \/ DCallbackRaises
    \/ Propagate \/ StatsTrackerFails

MirrorSpec == MirrorInit /\ [][MirrorNext]_vars

\* Two threads call one tracker, the Engine's, whose table and file are empty.
LedgerInit == Init /\ content = FullBody /\ part = NoFile

LedgerNext ==
    \/ BeginCall \/ acquire
    \/ LoadEntry \/ StoreEntry \/ save_stats
    \/ ReadTable \/ RemoveOld
    \/ release \/ Tick

LedgerSpec == LedgerInit /\ [][LedgerNext]_vars

\* The Engine's tracker and the Selector's tracker, both constructed when the
\* file was empty, are called by two threads.
SharedInit ==
    /\ TransferInit /\ content = FullBody /\ part = NoFile
    /\ stats = EmptyTable /\ stats_file = EmptyTable /\ selector_stats = EmptyTable
    /\ lock = [k \in Trackers |-> "free"]
    /\ tpc = [t \in Threads |-> "idle"]
    /\ call = [t \in Threads |-> NoCall]
    /\ tmp = [t \in Threads |-> NoCounts]
    /\ ret = [t \in Threads |-> NoResult]
    /\ recorded = [u \in URLs |-> [success_count |-> 0, failure_count |-> 0]]
    /\ ncalls = 0 /\ now = 0
    /\ live = Trackers
    /\ SelectorIdle /\ PathIdle /\ AuxIdle

SharedSpec == SharedInit /\ [][LedgerNext]_vars

\* The entries earlier runs may have left for a URL: none, or some successes
\* and failures with the response times of the successes summed.
Splits == {<<9, 1>>, <<3, 2>>, <<1, 0>>, <<2, 0>>, <<0, 1>>, <<1, 1>>}
Histories ==
    {NoStats} \cup
    {[present |-> TRUE, success_count |-> c[1], failure_count |-> c[2],
      total_response_time_ms |-> c[1] * ms,
      last_used |-> IF c[1] > 0 THEN 0 ELSE None, last_updated |-> 0] :
        c \in Splits, ms \in Elapsed}
Tables == [URLs -> Histories]

\* rank_mirrors is called on a tracker that loaded any such table.
RankInit ==
    /\ TransferInit /\ content = FullBody /\ part = NoFile
    /\ stats \in Tables /\ stats_file = stats /\ selector_stats = EmptyTable
    /\ LedgerIdle /\ SelectorIdle /\ PathIdle /\ AuxIdle

RankNext == RankCall

RankSpec == RankInit /\ [][RankNext]_vars

\* The Selector's tracker loaded, for each URL, no entry, the entry of a
\* mirror that answered once, or the entry of a mirror that failed once.
SelectorHistories ==
    {NoStats,
     [present |-> TRUE, success_count |-> 1, failure_count |-> 0,
      total_response_time_ms |-> 1, last_used |-> 0, last_updated |-> 0],
     [present |-> TRUE, success_count |-> 0, failure_count |-> 1,
      total_response_time_ms |-> 0, last_used |-> None, last_updated |-> 0]}
SelectInit ==
    /\ TransferInit /\ content = FullBody /\ part = NoFile
    /\ stats = EmptyTable
    /\ selector_stats \in [URLs -> SelectorHistories] /\ stats_file = selector_stats
    /\ LedgerIdle /\ SelectorIdle /\ PathIdle /\ AuxIdle

SelectNext == SelectCall \/ ProbeCompletes \/ SelectReturn

SelectSpec == SelectInit /\ [][SelectNext]_vars

\* A download is started for some destination.
PathInit == Init /\ content = FullBody /\ part = NoFile

PathNext == NamePaths

PathSpec == PathInit /\ [][PathNext]_vars

\* A tracker is constructed over any mirror_stats.json.
LoadInit ==
    /\ TransferInit /\ content = FullBody /\ part = NoFile
    /\ stats = EmptyTable /\ stats_file = EmptyTable /\ selector_stats = EmptyTable
    /\ lock = [k \in Trackers |-> "free"]
    /\ tpc = [t \in Threads |-> "idle"]
    /\ call = [t \in Threads |-> NoCall]
    /\ tmp = [t \in Threads |-> NoCounts]
    /\ ret = [t \in Threads |-> NoResult]
    /\ recorded = [u \in URLs |-> [success_count |-> 0, failure_count |-> 0]]
    /\ ncalls = 0 /\ now = 0
    /\ live = {}
    /\ SelectorIdle /\ PathIdle /\ SchedulerIdle /\ PairIdle /\ gate_hist = "open"
    /\ raw_file \in RawFiles

LoadNext == Construct

LoadSpec == LoadInit /\ [][LoadNext]_vars

\* An UpdateScheduler is constructed over no file, or over a file written
\* with checks switched off or with timestamps fromisoformat refuses.
LoadablePreferences ==
    {[default_preferences EXCEPT !.enabled = e, !.last_check_timestamp = l,
                                 !.remind_later_until = r, !.skip_until_date = s] :
        e \in BOOLEAN, l \in {None, Invalid}, r \in {None, Invalid},
        s \in {None, Invalid}}
SchedInit ==
    /\ TransferInit /\ content = FullBody /\ part = NoFile
    /\ stats = EmptyTable /\ stats_file = EmptyTable /\ selector_stats = EmptyTable
    /\ LedgerIdle /\ SelectorIdle /\ PathIdle /\ PairIdle /\ gate_hist = "open"
    /\ raw_file = AbsentFile
    /\ preferences \in LoadablePreferences /\ prefs_file = preferences
    /\ sched_call = "none"

SchedNext ==
    \/ should_check_for_updates \/ mark_check_completed
    \/ set_remind_later \/ clear_remind_later
    \/ set_skip_date \/ clear_skip_date
    \/ add_skip_version \/ clear_skip_versions
    \/ set_check_interval_days \/ set_auto_check_enabled
    \/ SchedTick

SchedSpec == SchedInit /\ [][SchedNext]_vars

\* One process: no tracker and no selector exists yet, and the file is empty.
ProcessInit ==
    /\ TransferInit /\ content = FullBody /\ part = NoFile
    /\ stats = EmptyTable /\ stats_file = EmptyTable /\ selector_stats = EmptyTable
    /\ lock = [k \in Trackers |-> "free"]
    /\ tpc = [t \in Threads |-> "idle"]
    /\ call = [t \in Threads |-> NoCall]
    /\ tmp = [t \in Threads |-> NoCounts]
    /\ ret = [t \in Threads |-> NoResult]
    /\ recorded = [u \in URLs |-> [success_count |-> 0, failure_count |-> 0]]
    /\ ncalls = 0 /\ now = 0
    /\ live = {}
    /\ SelectorIdle /\ PathIdle /\ AuxIdle

ProcessNext ==
    \/ EngineRecord
    \/ ProcessSelect \/ ProbeCompletes \/ SelectReturn \/ SelectDone

ProcessSpec == ProcessInit /\ [][ProcessNext]_vars


\* Two threads call download_with_resume on the one engine for the one
\* destination, in every interleaving of their steps.
PairInit == Init /\ content = FullBody /\ part = NoFile
PairNext ==
    \E w \in Workers :
        \/ PairCall(w) \/ PairOpen(w) \/ PairWrite(w) \/ PairStreamFails(w)
        \/ PairClose(w) \/ PairRename(w) \/ PairCleanup(w)
PairSpec == PairInit /\ [][PairNext]_vars

\* One download_with_resume or download_with_mirrors call for a destination at
\* which a file exists already; nothing else of that path is on the disk.
OldFile == <<0, 1, 0>>
ReplaceInit ==
    /\ content = FullBody
    /\ dest = OldFile /\ part = NoFile /\ meta = NoMeta
    /\ WorkerIdle
    /\ OthersIdle
ReplaceNext == MirrorNext \/ download_with_resume
ReplaceSpec == ReplaceInit /\ [][ReplaceNext]_vars
\* ================================================================== claims
Completed == status_code \in {200, 206} /\ stream = <<>> /\ pc = "done" /\ error = "none"
Matches(exp, body) == exp = <<>> \/ lower(exp) = lower(Digest(body))
Streaming == pc \in {"iter", "wait", "write", "rename"}

\* C1: when the comparison of lines 401-409 is made against a file whose
\* SHA-256 differs, ignoring case, from the expected one, the call returns
\* failure and leaves neither the destination file nor the sidecar.
C1_ChecksumEnforcement ==
    [][(pc = "verify" /\ pc' = "done" /\ expected_sha256 # <<>>
            /\ lower(Digest(dest)) # lower(expected_sha256))
        => (~success' /\ ~Exists(dest') /\ meta' = NoMeta)]_vars

C1_Witness ==
    /\ op = "resume" /\ Completed /\ expected_sha256 # <<>>
    /\ cbLog # <<>> /\ downloaded_size > 0
    /\ ~success /\ ~Exists(dest) /\ meta = NoMeta

\* C2: a file at the destination path holds only a body that was read in
\* full and, when a checksum was expected, has already matched it.
C2_DestinationOnlyVerified ==
    Exists(dest) =>
        /\ pc \in {"verify", "done"}
        /\ stream = <<>>
        /\ Matches(expected_sha256, dest)

\* C3: a transfer resumed with 206 from a prefix on disk assembles exactly
\* the served body, and the running hash always covers the whole file so far.
C3_ResumeCorrectness ==
    /\ (status_code = 206 /\ Streaming) =>
            /\ part \o stream = Served(url)
            /\ (expected_sha256 # <<>> => sha256_hash = update_all(sha256, part))
    /\ (status_code = 206 /\ pc = "verify") =>
            /\ dest = Served(url)
            /\ (expected_sha256 # <<>> => sha256_hash = update_all(sha256, dest))
    /\ (status_code = 206 /\ Completed) =>
            /\ success = Matches(expected_sha256, Served(url))
            /\ (success => dest = Served(url))

C3_Witness ==
    /\ status_code = 206 /\ Completed /\ success
    /\ expected_sha256 # <<>>
    /\ headers > 0 /\ headers < Len(dest) /\ dest = Served(url)

AllResumeConditions ==
    /\ allow_resume
    /\ Exists(part)
    /\ meta.state = "ok"
    /\ meta.url = url
    /\ meta.downloaded_bytes = Len(part)
    /\ accept_ranges = "bytes"

\* C4: a Range header is sent, and the .part file is appended to, only when
\* resumption is allowed, the .part file exists, a readable sidecar names the
\* requested URL and the file's actual size, and the HEAD probe reported byte
\* ranges; otherwise the GET is plain and the file is rewritten from byte 0.
C4_RangeOnlyWhenValid ==
    [][(pc = "get" /\ pc' # "get") =>
          /\ (headers >= 0 => AllResumeConditions /\ headers = Len(part))
          /\ (status_code' = 206 => AllResumeConditions /\ part' = part)
          /\ (~AllResumeConditions => headers = -1)
          /\ (~AllResumeConditions /\ pc' = "iter" =>
                /\ status_code' = 200 /\ part' = <<>> /\ downloaded_size' = 0
                /\ stream' = Served(url))]_vars

C4_Witness ==
    /\ pc = "iter" /\ status_code = 206 /\ headers > 0 /\ Len(part) = headers
    /\ allow_resume /\ accept_ranges = "bytes" /\ meta.url = url
C4_WitnessFresh ==
    /\ pc = "iter" /\ status_code = 200 /\ headers = -1 /\ part = <<>>
    /\ allow_resume /\ meta.state = "ok" /\ meta.url = url
    /\ meta.downloaded_bytes > 0

RangeRefused == status_code = 200 /\ headers > 0

\* C5: a 200 answer to a Range request restarts the transfer: the file on
\* disk, the byte counter and the hash all start again from nothing, and the
\* completed destination is the served body.
C5_FallbackRestarts ==
    /\ (RangeRefused /\ Streaming) =>
            /\ part \o stream = Served(url)
            /\ downloaded_size = Len(part)
            /\ (expected_sha256 # <<>> => sha256_hash = update_all(sha256, part))
    /\ (RangeRefused /\ pc = "verify") => dest = Served(url)
    /\ (RangeRefused /\ Completed) =>
            /\ success = Matches(expected_sha256, Served(url))
            /\ (success => dest = Served(url))

C5_Witness ==
    /\ RangeRefused /\ Completed /\ success /\ expected_sha256 # <<>>
    /\ dest = Served(url) /\ Len(dest) >= headers

\* C6: on success the destination exists and the .part file and the sidecar
\* of that destination do not.
C6_SuccessLeavesOnlyDestination ==
    (op = "resume" /\ pc = "done" /\ success)
        => (Exists(dest) /\ ~Exists(part) /\ meta = NoMeta)

C6_Witness ==
    /\ op = "resume" /\ pc = "done" /\ success /\ Exists(dest)
    /\ downloaded_size > 0

\* C7: while the gate is closed (pause() has returned, resume() has not been
\* called) no step adds bytes to the .part file, invokes the progress
\* callback or saves a sidecar.
C7_PauseBlocksProgress ==
    [][~pause_event =>
          /\ ~(Exists(part) /\ Exists(part') /\ Len(part') > Len(part))
          /\ cbLog' = cbLog
          /\ ~(meta'.state = "ok" /\ meta' # meta)]_vars

BlockedOnGate == pc = "wait" /\ ~pause_event
Assembled == pc = "verify" /\ dest = Served(url)
ReturnedRight ==
    /\ Completed
    /\ success = Matches(expected_sha256, Served(url))
    /\ (success => dest = Served(url))

\* C8: a worker blocked on the closed gate, once resume() has been called for
\* good, goes on to write every remaining chunk exactly once: the assembled
\* file is the served body, and the call returns success exactly when that
\* body matches the expected checksum (or none was given).
C8_LivenessAfterResume ==
    (<>[]pause_event) => /\ (BlockedOnGate ~> Assembled)
                         /\ (BlockedOnGate ~> ReturnedRight)

C8_Witness ==
    /\ BlockedOnGate /\ part # <<>> /\ Len(stream) > ChunkSize
    /\ expected_sha256 = upper(Digest(Served(url)))
    /\ expected_sha256 # Digest(Served(url))

Count(l, x) == Cardinality({k \in DOMAIN l : l[k] = x})
IsPermutation(l, m) == Len(l) = Len(m) /\ \A x \in URLs : Count(l, x) = Count(m, x)
Outcome(k) == ledgerLog[k][2]

\* C9: the candidates are a reordering of [primary] + mirrors and are tried
\* one at a time in list order; the call returns True at the first success
\* and False only when every candidate has been tried and has failed.
C9_MirrorFailover ==
    op = "mirrors" =>
        /\ IsPermutation(all_urls, candidates)
        /\ Len(ledgerLog) <= Len(all_urls)
        /\ \A k \in DOMAIN ledgerLog : ledgerLog[k][1] = all_urls[k]
        /\ \A k \in 1..(Len(ledgerLog) - 1) : Outcome(k) = "failure"
        /\ (mpc = "loop" => i = Len(ledgerLog) + 1
                            /\ \A k \in DOMAIN ledgerLog : Outcome(k) = "failure")
        /\ (mpc = "call" => i = Len(ledgerLog) + 1
                            /\ (pc # "idle" => url = all_urls[i])
                            /\ \A k \in DOMAIN ledgerLog : Outcome(k) = "failure")
        /\ (mpc = "done" /\ success =>
                /\ ledgerLog # <<>> /\ i = Len(ledgerLog)
                /\ Outcome(Len(ledgerLog)) = "success")
        /\ (mpc = "done" /\ ~success =>
                /\ Len(ledgerLog) = Len(all_urls)
                /\ \A k \in DOMAIN ledgerLog : Outcome(k) = "failure")

C9_Witness ==
    /\ op = "mirrors" /\ mpc = "done" /\ success
    /\ Len(all_urls) = 3 /\ i = 2
    /\ all_urls # candidates
    /\ all_urls[1] = all_urls[3]

Attempted == 1..(IF success THEN i ELSE Len(all_urls))
Failed == 1..(IF success THEN i - 1 ELSE Len(all_urls))

\* C10: when download_with_mirrors returns, each URL's ledger entry counts one
\* failure per failed attempt of that URL, one success with its elapsed time
\* for the URL of the successful attempt, and nothing else; a URL that was not
\* attempted has no entry.
C10_LedgerAccounting ==
    (op = "mirrors" /\ mpc = "done") =>
        \A u \in URLs :
            /\ stats[u].present = (\E k \in Attempted : all_urls[k] = u)
            /\ stats[u].failure_count = Cardinality({k \in Failed : all_urls[k] = u})
            /\ stats[u].success_count = IF success /\ all_urls[i] = u THEN 1 ELSE 0
            /\ stats[u].total_response_time_ms =
                    IF success /\ all_urls[i] = u THEN ledgerLog[i][3] ELSE 0
            /\ (success => ledgerLog[i][3] \in Elapsed)

C10_Witness ==
    /\ op = "mirrors" /\ mpc = "done" /\ success /\ i = 3
    /\ all_urls = <<"u3", "u1", "u2">>
    /\ stats["u3"].failure_count = 1 /\ stats["u1"].failure_count = 1
    /\ stats["u2"].success_count = 1 /\ stats["u2"].total_response_time_ms = 2

\* C11: a network error while download_with_resume is requesting or streaming
\* ends the call with failure, not with an exception, and changes no file:
\* the .part file keeps every byte written so far and the sidecar stays.
C11_NetworkErrorKeepsFiles ==
    [][(error = "none" /\ error' = "RequestException") =>
          /\ pc' = "done" /\ ~success'
          /\ part' = part /\ meta' = meta /\ dest' = dest]_vars

C11_Witness ==
    /\ op = "resume" /\ pc = "done" /\ error = "RequestException" /\ ~success
    /\ status_code \in {200, 206} /\ stream # <<>>
    /\ Exists(part) /\ Len(part) > 1 /\ meta = Record(url, Len(part))

\* C12: neither download_with_resume nor download_with_mirrors ends by raising
\* to its caller, whatever fault occurs.
C12_NoOperationRaises ==
    /\ (op = "resume" => pc # "raised")
    /\ (op = "mirrors" => mpc # "raised")

\* C13: once download_with_mirrors has moved to another candidate, the new
\* attempt writes the file from byte 0, and a sidecar on disk validates a
\* resumption only of bytes that came from the URL it names.
C13_SwitchDiscardsResumeState ==
    /\ (op = "mirrors" /\ status_code = 200 /\ Streaming)
            => part \o stream = Served(url)
    /\ (op = "mirrors" /\ pc = "idle" /\ Exists(part) /\ meta.state = "ok"
            /\ Len(part) = meta.downloaded_bytes)
            => part = Take(Served(meta.url), Len(part))

Last(l) == l[Len(l)]

\* C17: every progress callback of a download_with_resume call carries a
\* downloaded-bytes value above that of the callback before it (above the
\* resume offset for the first callback of a resumed transfer), and none is
\* invoked once the call has returned.
C17_ProgressOrdering ==
    [][cbLog' # cbLog =>
          /\ pc \notin {"idle", "done"}
          /\ Len(cbLog') = Len(cbLog) + 1
          /\ SubSeq(cbLog', 1, Len(cbLog)) = cbLog
          /\ Last(cbLog') > (IF cbLog # <<>> THEN Last(cbLog)
                              ELSE IF status_code = 206 THEN headers ELSE 0)]_vars

C17_Witness ==
    /\ op = "resume" /\ pc = "done" /\ status_code = 206 /\ headers > 0
    /\ Len(cbLog) >= 2 /\ cbLog[1] > headers /\ cbLog[2] > cbLog[1]

\* C18: a resource error while writing ends the whole download_with_mirrors
\* call: the partial file stays where it is and no further candidate is tried.
C18_ResourceErrorIsFatal ==
    [][/\ (error = "none" /\ error' = "OSError")
            => (~success' /\ part' = part /\ dest' = dest)
       /\ ~(error = "OSError" /\ mpc = "loop" /\ mpc' = "call")]_vars

InLock(t) == tpc[t] \in {"locked", "loaded", "save", "unlock"}
Quiet == \A t \in Threads : tpc[t] = "idle"

C15_FileReflectsAllOutcomes ==
    Quiet => \A u \in URLs :
                /\ stats_file[u].success_count = recorded[u].success_count
                /\ stats_file[u].failure_count = recorded[u].failure_count

\* The ranking the claim states: success rate, 100% for a URL without an
\* entry, and average response time, 0 for a URL without an entry.
Attempts(u) == stats[u].success_count + stats[u].failure_count
RateNum(u) == IF stats[u].present /\ Attempts(u) > 0 THEN stats[u].success_count ELSE 1
RateDen(u) == IF stats[u].present /\ Attempts(u) > 0 THEN Attempts(u) ELSE 1
TimeNum(u) == IF stats[u].present /\ stats[u].success_count > 0
              THEN stats[u].total_response_time_ms ELSE 0
TimeDen(u) == IF stats[u].present /\ stats[u].success_count > 0
              THEN stats[u].success_count ELSE 1
SameRate(u, v) == RateNum(u) * RateDen(v) = RateNum(v) * RateDen(u)
SameTime(u, v) == TimeNum(u) * TimeDen(v) = TimeNum(v) * TimeDen(u)
RanksBefore(u, v) ==
    \/ RateNum(u) * RateDen(v) > RateNum(v) * RateDen(u)
    \/ SameRate(u, v) /\ TimeNum(u) * TimeDen(v) < TimeNum(v) * TimeDen(u)
Only(l, u, v) == SelectSeq(l, LAMBDA x : x \in {u, v})
HasRate(u, pct) == stats[u].present /\ Attempts(u) > 0
                   /\ stats[u].success_count * 100 = pct * Attempts(u)

\* C16: rank_mirrors returns its input reordered by success rate, highest
\* first, then by average response time, lowest first, a URL without an
\* entry counting as 100% and 0 ms; URLs with equal keys keep their input
\* order; an untested URL, one at 90% and one at 60% come out in that order.
C16_RankOrder ==
    /\ IsPermutation(ranked, rank_input)
    /\ \A j, k \in DOMAIN ranked : j < k => ~RanksBefore(ranked[k], ranked[j])
    /\ \A u, v \in URLs :
          (SameRate(u, v) /\ SameTime(u, v))
              => Only(ranked, u, v) = Only(rank_input, u, v)
    /\ \A a, b, c \in URLs :
          (/\ ~stats[a].present /\ HasRate(b, 90) /\ HasRate(c, 60)
           /\ IsPermutation(rank_input, <<a, b, c>>))
              => ranked = <<a, b, c>>

C16_Witness ==
    /\ rank_input = <<"u1", "u2", "u3">> /\ ranked = <<"u3", "u2", "u1">>
    /\ ~stats["u3"].present /\ HasRate("u2", 90) /\ HasRate("u1", 60)

Answered == {k \in DOMAIN probes : probes[k] > 0}

\* C19: select_best_mirror returns only when every probe has finished, and
\* then returns a URL of its input one of whose probes succeeded with the
\* lowest latency of all the probes that succeeded; it returns none exactly
\* when the input is empty or no probe succeeded.
C19_SelectsFastestResponder ==
    spc = "returned" =>
        /\ Pending = {}
        /\ (selected = "") = (sel_input = <<>> \/ Answered = {})
        /\ selected # "" =>
              /\ selected \in Range(sel_input)
              /\ \E k \in Answered :
                    /\ sel_mirrors[k] = selected
                    /\ \A j \in Answered : probes[k] <= probes[j]

\* C20: the .part path and the sidecar path are the destination path with a
\* fixed extension appended, and no other destination has the same .part
\* path or the same sidecar path.
C20_OneSidecarPerDestination ==
    destination # <<>> =>
        /\ part_file = destination \o PART
        /\ metadata_path = destination \o RESUME
        /\ \A other \in Names \ {destination} :
              /\ with_suffix(other, PART) # part_file
              /\ with_suffix(other, RESUME) # metadata_path

\* C21: on a server that supports byte ranges, every chunk write that takes
\* the byte count across a multiple of 10 MiB saves a sidecar, with or
\* without a progress callback, and every sidecar saved records the size the
\* .part file has at that moment.
C21_CheckpointCadence ==
    [][/\ (/\ pc = "write" /\ pc' = "iter" /\ supports_resume
           /\ downloaded_size' \div TenMiB > downloaded_size \div TenMiB)
            => meta' = Record(url, Len(part'))
       /\ (meta' # meta /\ meta'.state = "ok")
            => meta'.downloaded_bytes = Len(part')]_vars

Damaged(raw) ==
    \/ raw.form \in {"truncated", "array"}
    \/ \E k \in DOMAIN raw.items : Refused(raw.items[k][2])

\* C22: a tracker constructed over a mirror_stats.json that is cut off, is not
\* a JSON object or holds a value that is not a well-formed entry has no entry
\* for any URL: get_stats finds none and rank_mirrors leaves every list in its
\* input order.
C22_DamagedFileIsEmpty ==
    (live # {} /\ Damaged(raw_file)) =>
        /\ \A u \in URLs : ~stats[u].present
        /\ \A l \in CandidateLists : rank_mirrors(stats, l) = l

ChecksEnabled == preferences.enabled /\ preferences.auto_check_on_startup
Answer == IF sched_call = "True" THEN TRUE ELSE FALSE
CheckRecorded == preferences.last_check_timestamp >= 0

\* C23: with update checks enabled and neither a remind-later nor a skip
\* period running, should_check_for_updates answers true when no check was
\* recorded, and after a check false until check_interval_days have passed
\* since it and true from then on; mark_check_completed records the present
\* moment and clears remind-later, and leaves the skip date and the skipped
\* versions as they were.
C23_CheckInterval ==
    [][/\ (/\ sched_call' \in {"True", "False"}
           /\ ChecksEnabled
           /\ ~Active(preferences.remind_later_until)
           /\ ~Active(preferences.skip_until_date))
            => (sched_call' = "True") =
                    (\/ ~CheckRecorded
                     \/ now - preferences.last_check_timestamp
                            >= preferences.check_interval_days)
       /\ (sched_call' = "mark_check_completed")
            => /\ preferences'.last_check_timestamp = now
               /\ preferences'.remind_later_until = None
               /\ preferences'.skip_until_date = preferences.skip_until_date
               /\ preferences'.skip_versions = preferences.skip_versions]_vars

C23_Witness ==
    /\ sched_call = "True" /\ ChecksEnabled
    /\ preferences.last_check_timestamp = 0 /\ preferences.check_interval_days = MaxNow
    /\ now = MaxNow
    /\ preferences.skip_until_date = 1 /\ preferences.skip_versions # <<>>
    /\ preferences.remind_later_until = None

ChunkTaken == stream # <<>> /\ stream' = Drop(stream, ChunkSize)

\* C24: on every path, download_with_resume and the path download_with_mirrors
\* takes with allow_resume off, a chunk is written only from the position
\* that the wait on the pause gate leads to, and it is appended to the .part
\* file while the destination is left alone.
C24_EveryWriteBehindGate ==
    [][/\ ChunkTaken => /\ pc = "write"
                        /\ part' = part \o Take(stream, ChunkSize)
                        /\ dest' = dest
       /\ (pc # "write" /\ pc' = "write") => (pc = "wait" /\ pause_event)]_vars

\* C25: when select_best_mirror is called after download_with_mirrors has
\* recorded outcomes, the mirrors it goes on to probe are the candidates
\* filtered and ranked by the ledger as the Engine has left it.
C25_SelectorSeesEngineLedger ==
    [][(spc = "idle" /\ spc' # "idle" /\ "engine" \in live)
          => sel_mirrors' = PreRanked(stats, sel_input')]_vars

\* C26: record_success(url, t) creates the entry of url if it is absent, adds
\* 1 to success_count and t to the cumulative response time, and sets
\* last_used and last_updated; record_failure(url) creates the entry if it is
\* absent, adds 1 to failure_count and sets last_updated, leaving
\* success_count, the cumulative response time and last_used as they were;
\* both leave the entry of every other URL as it was, and no counter ever
\* decreases except when cleanup_old_stats removes the entry.
EntryCreated(a, b) == ~a.present /\ b = [NoStats EXCEPT !.present = TRUE]
SuccessStored(a, b, t) ==
    /\ a.present
    /\ b = [a EXCEPT !.success_count = @ + 1,
                     !.total_response_time_ms = @ + t,
                     !.last_used = now,
                     !.last_updated = now]
FailureStored(a, b) ==
    /\ a.present
    /\ b = [a EXCEPT !.failure_count = @ + 1, !.last_updated = now]
EntryPruned(a, b) == a.present /\ b = NoStats
EntryStep(k, u, a, b) ==
    \/ b = a
    \/ \E t \in Threads :
         /\ call[t].tracker = k
         /\ \/ /\ Recording(t) /\ call[t].mirror_url = u
               /\ \/ tpc[t] = "locked" /\ tpc'[t] = "loaded" /\ EntryCreated(a, b)
                  \/ /\ tpc[t] = "loaded" /\ tpc'[t] = "save"
                     /\ IF call[t].kind = "record_success"
                        THEN SuccessStored(a, b, call[t].response_time_ms)
                        ELSE FailureStored(a, b)
            \/ call[t].kind = "cleanup_old_stats" /\ EntryPruned(a, b)
C26_RecordEffectAndFrame ==
    [][/\ \A u \in URLs : /\ EntryStep("engine", u, stats[u], stats'[u])
                          /\ EntryStep("selector", u, selector_stats[u],
                                       selector_stats'[u])
       /\ \A t \in Threads :
            (Recording(t) /\ tpc[t] = "unlock" /\ tpc'[t] = "idle")
                => Table(call[t].tracker)[call[t].mirror_url].last_updated >= 0]_vars
C26_Witness ==
    \E t \in Threads, u \in URLs :
        /\ call[t].kind = "record_failure" /\ call[t].mirror_url = u
        /\ tpc[t] = "unlock"
        /\ stats[u].success_count = 1 /\ stats[u].failure_count = 1
        /\ stats[u].last_used = 0 /\ stats[u].last_updated = 1
        /\ \E v \in URLs \ {u} : stats[v].present

\* C27: two download_with_resume calls for one destination path, started
\* concurrently, never both hold the .part file of that path open for
\* writing at the same time.
HoldsPart(w) == pair[w].pc = "iter" /\ pair[w].at = "part"
C27_OneTransferPerPath == ~(HoldsPart("w1") /\ HoldsPart("w2"))

\* C28: is_paused() is true exactly when the most recent control call was
\* pause(), whatever the transfers did in between; a download_with_resume
\* call begun while the gate is closed adds no byte to the .part file as long
\* as resume() is not called, and returns before resume() is called only
\* without having taken a chunk: because the request or the stream failed,
\* or because the stream was empty.
LastWasPause == gate_hist # "open"
HeldCall == gate_hist = "held" /\ op = "resume"
PartGrows == Exists(part) /\ Exists(part') /\ Len(part') > Len(part)
ReturnedUnfed ==
    /\ cbLog = <<>>
    /\ \/ error \in {"RequestException", "ValueError"}
       \/ Served(url) = <<>>
C28_GateOutlivesTransfer ==
    [][/\ is_paused' <=> LastWasPause'
       /\ HeldCall' => /\ ~PartGrows
                       /\ pc' = "done" => ReturnedUnfed']_vars
C28_Witness ==
    /\ HeldCall /\ pc = "wait" /\ stream # <<>> /\ part = <<>>
    /\ is_paused

\* C28 as stated: such a call, unless its stream is empty, does not return
\* until resume() is called.
C28_HeldCallNeverReturns ==
    [][/\ is_paused' <=> LastWasPause'
       /\ HeldCall' => /\ ~PartGrows
                       /\ pc' = "done" => Served(url') = <<>>]_vars

\* C29: whenever download_with_resume opens an existing .part file to append
\* to it (the answer was 206), every byte already in the file was written by
\* an earlier attempt against the URL of this one: the file is the head of
\* the body that URL serves.
AppendsTo206 == pc = "get" /\ pc' = "iter" /\ status_code' = 206
C29_NoCrossURLMixing ==
    [][AppendsTo206 => part' = Take(Served(url), Len(part'))]_vars

\* C30: when a file exists at the destination as download_with_resume or
\* download_with_mirrors is called and the call returns failure, that file
\* is still there with the content it had.
ReturnedFailure ==
    \/ op = "resume" /\ pc = "done" /\ ~success
    \/ op = "mirrors" /\ mpc = "done" /\ ~success
C30_FailureKeepsDestination == ReturnedFailure => dest = OldFile
====
